---- MODULE Spec2Model ----
(***************************************************************************)
(* Session handling core of the Maillennia SMTP server (pyk/session).     *)
(* The model follows the latest snapshot of session.go (part_000, lines   *)
(* 293-786), its tests, and the server harness of session_test.go.        *)
(*                                                                         *)
(* A protocol line is a sequence of one-character strings, so that Verb,   *)
(* Arg and the regular expressions are computed as the Go code computes    *)
(* them.  Replies and errors are the exact Go string literals; Transmit    *)
(* appends CR LF to each.                                                  *)
(***************************************************************************)
EXTENDS Integers, Sequences, FiniteSets, TLC

VARIABLES
    pc,          \* per session: position of its Serve goroutine
    Validity,    \* per session: SessionValidity {HeloFirst, MailFirst, RcptFirst}
    envl,        \* per session: Envelope {OriginatorAddress, RecipientAddress}
    peer,        \* per session: what its peer sends
    exit,        \* per session: which return statement left Serve
    done,        \* per session: number of Wg.Done() calls made by Close
    conn,        \* per session: state of net.Conn ("none", "open", "closed")
    connCloses,  \* per session: number of Conn.Close() calls
    wg,          \* sync.WaitGroup counter shared by Run and every session
    ChanClosed,  \* TRUE once close(smtps.Stoped) has been executed
    runPc,       \* position of SMTPserver.Run
    stopPc,      \* position of SMTPserver.Stop
    last         \* record of the most recent Serve step (greeting or loop iteration);
                 \* its turn alternates, so that an iteration that repeats the one
                 \* before it is a step all the same

vars == <<pc, Validity, envl, peer, exit, done, conn, connCloses, wg,
          ChanClosed, runPc, stopPc, last>>

(***************************************************************************)
(* Bounds of the model.                                                    *)
(***************************************************************************)
\* recipients the peer gets accepted into one envelope
MaxRcpts == 2

\* the connections AcceptTCP can hand to Run: one, or two at the same time
Solo == {1}
Pair == {1, 2}

(***************************************************************************)
(* Characters and Go string helpers.                                       *)
(***************************************************************************)
LowerAlpha ==
    <<"a","b","c","d","e","f","g","h","i","j","k","l","m",
      "n","o","p","q","r","s","t","u","v","w","x","y","z">>
UpperAlpha ==
    <<"A","B","C","D","E","F","G","H","I","J","K","L","M",
      "N","O","P","Q","R","S","T","U","V","W","X","Y","Z">>
Range(f) == {f[i] : i \in DOMAIN f}
Alpha == Range(LowerAlpha) \cup Range(UpperAlpha)
Digit == {"0","1","2","3","4","5","6","7","8","9"}
\* the class [a-zA-Z0-9._-] of the predefined regular expressions
AddrCh == Alpha \cup Digit \cup {".", "_", "-"}
\* unicode.IsSpace, on the characters a line can hold here
IsSpace(ch) == ch \in {" ", "\t", "\n", "\r"}

SetMin(S) == CHOOSE x \in S : \A y \in S : x <= y
SetMax(S) == CHOOSE x \in S : \A y \in S : x >= y

\* strings.TrimSpace
TrimSpace(str) ==
    LET keep == {i \in 1..Len(str) : ~IsSpace(str[i])}
    IN  IF keep = {} THEN <<>> ELSE SubSeq(str, SetMin(keep), SetMax(keep))

\* strings.ToUpper
UpperCh(ch) ==
    IF \E i \in 1..26 : LowerAlpha[i] = ch
    THEN UpperAlpha[CHOOSE i \in 1..26 : LowerAlpha[i] = ch]
    ELSE ch
ToUpper(str) == SubSeq([i \in 1..Len(str) |-> UpperCh(str[i])], 1, Len(str))

\* strings.Index(str, ch): 0-based index of the first ch, -1 when absent
Index(str, ch) ==
    LET at == {i \in 1..Len(str) : str[i] = ch}
    IN  IF at = {} THEN -1 ELSE SetMin(at) - 1

\* strings.Split(str, " ")[0]
FirstField(str) ==
    LET i == Index(str, " ")
    IN  IF i < 0 THEN str ELSE SubSeq(str, 1, i)

\* len(strings.Split(str, " ")) > 1
HasSpace(str) == Index(str, " ") >= 0

\* strings.HasSuffix(str, "\r\n")
HasSuffixCRLF(str) ==
    /\ Len(str) >= 2
    /\ str[Len(str) - 1] = "\r"
    /\ str[Len(str)] = "\n"

\* line[i:], i a 0-based byte offset
From(str, i) == SubSeq(str, i + 1, Len(str))

(***************************************************************************)
(* The predefined regular expressions (part_000, lines 319-325).  A match  *)
(* is described by the positions it covers, 1-based and inclusive.         *)
(***************************************************************************)
\* ends e of a match of (?:[a-zA-Z0-9._-]+\.)+[a-zA-Z]{2,} that starts at p:
\* a run of class characters ending in the dot at d, then two letters or more
DomainEnds(str, p) ==
    {e \in (p + 3)..Len(str) :
        \E d \in (p + 1)..(e - 2) :
            /\ str[d] = "."
            /\ \A i \in p..(d - 1) : str[i] \in AddrCh
            /\ \A i \in (d + 1)..e : str[i] \in Alpha}

\* ends of a match of rMailAddr that starts at p: the local part runs to the
\* first "@" (the class has no "@"), then the domain
AddrEnds(str, p) ==
    UNION {IF /\ str[k] = "@"
              /\ \A i \in p..(k - 1) : str[i] \in AddrCh
           THEN DomainEnds(str, k + 1)
           ELSE {} : k \in (p + 1)..Len(str)}

\* rMailAddr.FindString: the leftmost match; every quantifier is greedy, so
\* the match taken at that start is the one with the last dot furthest right
\* and the longest run of letters after it, which is the longest one
rMailAddrFind(str) ==
    LET starts == {p \in 1..Len(str) : AddrEnds(str, p) # {}}
    IN  IF starts = {} THEN <<>>
        ELSE LET p == SetMin(starts)
             IN  SubSeq(str, p, SetMax(AddrEnds(str, p)))

\* rArgSyntax.MatchString: <(.+)> anywhere, "." being any character but \n
rArgSyntaxMatch(str) ==
    \E i \in 1..Len(str) : \E j \in (i + 2)..Len(str) :
        /\ str[i] = "<"
        /\ str[j] = ">"
        /\ \A k \in (i + 1)..(j - 1) : str[k] # "\n"

\* rMailArg.MatchString: <address> anywhere
rMailArgMatch(str) ==
    \E i \in 1..Len(str) :
        /\ str[i] = "<"
        /\ \E e \in AddrEnds(str, i + 1) : e < Len(str) /\ str[e + 1] = ">"

\* the part of rRcptArg after "<", matched from p: hops @domain with an
\* optional comma each, an optional colon, the address, ">"
RECURSIVE RcptPath(_, _)
RcptPath(str, p) ==
    LET closes(q) ==
            \E e \in AddrEnds(str, q) : e < Len(str) /\ str[e + 1] = ">"
        hop ==
            /\ p <= Len(str)
            /\ str[p] = "@"
            /\ \E e \in DomainEnds(str, p + 1) :
                  \/ RcptPath(str, e + 1)
                  \/ e < Len(str) /\ str[e + 1] = "," /\ RcptPath(str, e + 2)
    IN  \/ hop
        \/ closes(p)
        \/ p <= Len(str) /\ str[p] = ":" /\ closes(p + 1)

\* rRcptArg.MatchString
rRcptArgMatch(str) ==
    \E i \in 1..Len(str) : str[i] = "<" /\ RcptPath(str, i + 1)

(***************************************************************************)
(* Replies and error replies (part_000, lines 308-343).                    *)
(***************************************************************************)
REPLY_220 == "220 <host> Maillennia ESMTP ready"
REPLY_221 == "221 2.0.0 Bye"
REPLY_250 == "250 2.0.0 OK"
REPLY_250_RCPT == "250 2.1.5 OK"
REPLY_354 == "354 Go ahead"
REPLY_453 == "453 5.3.2 System not accepting network message"
REPLY_503 == "503 5.5.1 Invalid command"

ehloFirstErr == "503 5.5.1 HELO/EHLO first"
badSeqErr == "503 5.5.1 Bad sequence of commands"
syntaxErr == "555 5.5.2 Syntax error"
invalidCommandArgErr == "501 5.5.4 Invalid command arguments"
invalidRcptEmailErr ==
    "553-5.1.2 Invalid recipient email address.\r\n553-5.1.2 Please Check for any spelling errors\r\n553-5.1.2 make sure before & after recipient email address\r\n553 5.1.2 doesn't contain periods, spaces, or other punctuation."
\* the nil error
nil == "<nil>"

(***************************************************************************)
(* command (part_000, lines 370-488).                                      *)
(***************************************************************************)
CRLF == <<"\r", "\n">>
V_EHLO == <<"E", "H", "L", "O">>
V_HELO == <<"H", "E", "L", "O">>
V_MAIL == <<"M", "A", "I", "L", " ", "F", "R", "O", "M", ":">>
V_RCPT == <<"R", "C", "P", "T", " ", "T", "O", ":">>
V_DATA == <<"D", "A", "T", "A">>
V_RSET == <<"R", "S", "E", "T">>
V_QUIT == <<"Q", "U", "I", "T">>
V_NOOP == <<"N", "O", "O", "P">>
V_HELP == <<"H", "E", "L", "P">>
V_EXPN == <<"E", "X", "P", "N">>
V_VRFY == <<"V", "R", "F", "Y">>

\* a variant of Verb without the case of the bare terminator
VerbOfBlank(c) ==
    LET verb == TrimSpace(c)
    IN  IF Len(verb) = 4 THEN ToUpper(verb)
        ELSE IF Len(verb) > 4
             THEN LET i == Index(verb, ":")
                  IN  IF i > 0 THEN ToUpper(SubSeq(verb, 1, i + 1))
                      ELSE ToUpper(FirstField(verb))
             ELSE <<>>

\* command.Verb
Verb(c) ==
    IF c = CRLF THEN CRLF
    ELSE LET verb == TrimSpace(c)
         IN  IF Len(verb) = 4 THEN ToUpper(verb)
             ELSE IF Len(verb) > 4
                  THEN LET i == Index(verb, ":")
                       IN  IF i > 0 THEN ToUpper(SubSeq(verb, 1, i + 1))
                           ELSE ToUpper(FirstField(verb))
                  ELSE <<>>

\* command.Arg
Arg(c) ==
    IF c = CRLF THEN <<>>
    ELSE TrimSpace(From(c, Len(Verb(c))))

\* a variant of ValidLine that asks for the "\n" only
ValidLineNewlineOnly(c) ==
    IF c = <<>> THEN syntaxErr
    ELSE IF c[Len(c)] # "\n" THEN syntaxErr
    ELSE nil

\* command.ValidLine: the error it returns, nil for a valid line
ValidLine(c) ==
    IF c = <<>> THEN syntaxErr
    ELSE IF ~HasSuffixCRLF(c) THEN syntaxErr
    ELSE nil

\* command.ValidHello
ValidHello(c) ==
    IF Arg(c) = <<>> \/ HasSpace(Arg(c)) THEN invalidCommandArgErr ELSE nil

\* a variant of ValidMail that matches with rMailAddr in place of rMailArg
ValidMailUnbracketed(c) ==
    IF Arg(c) = <<>> THEN syntaxErr
    ELSE IF rMailAddrFind(Arg(c)) = <<>> THEN invalidCommandArgErr
    ELSE nil

\* command.ValidMail
ValidMail(c) ==
    IF Arg(c) = <<>> THEN syntaxErr
    ELSE IF ~rMailArgMatch(Arg(c)) THEN invalidCommandArgErr
    ELSE nil

\* command.ValidRcpt
ValidRcpt(c) ==
    IF Arg(c) = <<>> \/ ~rArgSyntaxMatch(Arg(c)) THEN syntaxErr
    ELSE IF ~rRcptArgMatch(Arg(c)) THEN invalidRcptEmailErr
    ELSE nil

\* command.ValidData
ValidData(c) ==
    IF Arg(c) # <<>> THEN syntaxErr ELSE nil

\* command.ValidQuit
ValidQuit(c) ==
    IF Verb(c) = V_QUIT /\ Arg(c) # <<>> THEN invalidCommandArgErr ELSE nil

\* a variant of EmailAddress that returns what the angle brackets enclose
EmailAddressInBrackets(c) ==
    LET opens == {i \in 1..Len(Arg(c)) : Arg(c)[i] = "<"}
        closes == {j \in 1..Len(Arg(c)) : Arg(c)[j] = ">"}
    IN  IF opens = {} \/ closes = {} THEN <<>>
        ELSE SubSeq(Arg(c), SetMin(opens) + 1, SetMax(closes) - 1)

\* command.EmailAddress
EmailAddress(c) == rMailAddrFind(Arg(c))

\* "\r\n"
L_Blank ==
    <<"\r", "\n">>
\* "EHLO host\r\n"
L_Ehlo ==
    <<"E", "H", "L", "O", " ", "h", "o", "s", "t", "\r", "\n">>
\* "ehlo host \r\n"
L_EhloTrail ==
    <<"e", "h", "l", "o", " ", "h", "o", "s", "t", " ", "\r", "\n">>
\* "HELO a b\r\n"
L_HeloTwo ==
    <<"H", "E", "L", "O", " ", "a", " ", "b", "\r", "\n">>
\* "EHLO\r\n"
L_EhloNone ==
    <<"E", "H", "L", "O", "\r", "\n">>
\* "MAIL FROM:<a@b.com>\r\n"
L_Mail ==
    <<"M", "A", "I", "L", " ", "F", "R", "O", "M", ":", "<", "a", "@", "b", ".", "c", "o", "m", ">", "\r", "\n">>
\* "MAIL FROM:a@b.com\r\n"
L_MailBare ==
    <<"M", "A", "I", "L", " ", "F", "R", "O", "M", ":", "a", "@", "b", ".", "c", "o", "m", "\r", "\n">>
\* "MAIL FROM:\r\n"
L_MailNone ==
    <<"M", "A", "I", "L", " ", "F", "R", "O", "M", ":", "\r", "\n">>
\* "MAIL FROM:<ab>\r\n"
L_MailBad ==
    <<"M", "A", "I", "L", " ", "F", "R", "O", "M", ":", "<", "a", "b", ">", "\r", "\n">>
\* "MAIL FROM:x@y.org <a@b.com>\r\n"
L_MailTwo ==
    <<"M", "A", "I", "L", " ", "F", "R", "O", "M", ":", "x", "@", "y", ".", "o", "r", "g", " ", "<", "a", "@", "b", ".", "c", "o", "m", ">", "\r", "\n">>
\* "RCPT TO:<c@d.com>\r\n"
L_Rcpt ==
    <<"R", "C", "P", "T", " ", "T", "O", ":", "<", "c", "@", "d", ".", "c", "o", "m", ">", "\r", "\n">>
\* "RCPT TO:c@d.com\r\n"
L_RcptBare ==
    <<"R", "C", "P", "T", " ", "T", "O", ":", "c", "@", "d", ".", "c", "o", "m", "\r", "\n">>
\* "RCPT TO:\r\n"
L_RcptNone ==
    <<"R", "C", "P", "T", " ", "T", "O", ":", "\r", "\n">>
\* "RCPT TO:<c@d.com,e@f.io>\r\n"
L_RcptTwo ==
    <<"R", "C", "P", "T", " ", "T", "O", ":", "<", "c", "@", "d", ".", "c", "o", "m", ",", "e", "@", "f", ".", "i", "o", ">", "\r", "\n">>
\* "RCPT TO:<@h.io:c@d.com>\r\n"
L_RcptRoute ==
    <<"R", "C", "P", "T", " ", "T", "O", ":", "<", "@", "h", ".", "i", "o", ":", "c", "@", "d", ".", "c", "o", "m", ">", "\r", "\n">>
\* "RCPT TO:<@h.ioc@d.com>\r\n"
L_RcptGlued ==
    <<"R", "C", "P", "T", " ", "T", "O", ":", "<", "@", "h", ".", "i", "o", "c", "@", "d", ".", "c", "o", "m", ">", "\r", "\n">>
\* "DATA\r\n"
L_Data ==
    <<"D", "A", "T", "A", "\r", "\n">>
\* "DATA x\r\n"
L_DataArg ==
    <<"D", "A", "T", "A", " ", "x", "\r", "\n">>
\* " DATA\r\n"
L_DataLead ==
    <<" ", "D", "A", "T", "A", "\r", "\n">>
\* "QUIT\r\n"
L_Quit ==
    <<"Q", "U", "I", "T", "\r", "\n">>
\* "QUIT now\r\n"
L_QuitArg ==
    <<"Q", "U", "I", "T", " ", "n", "o", "w", "\r", "\n">>
\* "RSET\r\n"
L_Rset ==
    <<"R", "S", "E", "T", "\r", "\n">>
\* "RSET x\r\n"
L_RsetArg ==
    <<"R", "S", "E", "T", " ", "x", "\r", "\n">>
\* "NOOP\r\n"
L_Noop ==
    <<"N", "O", "O", "P", "\r", "\n">>
\* "NOOP a:b\r\n"
L_NoopColon ==
    <<"N", "O", "O", "P", " ", "a", ":", "b", "\r", "\n">>
\* "HELP me\r\n"
L_Help ==
    <<"H", "E", "L", "P", " ", "m", "e", "\r", "\n">>
\* "VRFY bob\r\n"
L_Vrfy ==
    <<"V", "R", "F", "Y", " ", "b", "o", "b", "\r", "\n">>
\* "VRFY\r\n"
L_VrfyNone ==
    <<"V", "R", "F", "Y", "\r", "\n">>
\* "EXPN\r\n"
L_ExpnNone ==
    <<"E", "X", "P", "N", "\r", "\n">>
\* "FOO\r\n"
L_Short ==
    <<"F", "O", "O", "\r", "\n">>
\* "HELLO\r\n"
L_Unknown ==
    <<"H", "E", "L", "L", "O", "\r", "\n">>
\* "EHLO a\tb\r\n"
L_EhloTab ==
    <<"E", "H", "L", "O", " ", "a", "\t", "b", "\r", "\n">>
\* "EHLO a:b\r\n"
L_EhloColon ==
    <<"E", "H", "L", "O", " ", "a", ":", "b", "\r", "\n">>
\* "RCPT TO:<ab>\r\n"
L_RcptBad ==
    <<"R", "C", "P", "T", " ", "T", "O", ":", "<", "a", "b", ">", "\r", "\n">>
\* "RCPT TO:<@h.io,@g.co:c@d.com>\r\n"
L_RcptRoutes ==
    <<"R", "C", "P", "T", " ", "T", "O", ":", "<", "@", "h", ".", "i", "o", ",", "@", "g", ".", "c", "o", ":", "c", "@", "d", ".", "c", "o", "m", ">", "\r", "\n">>
\* "RCPT TO:<u-1@s.d.io>\r\n"
L_RcptSub ==
    <<"R", "C", "P", "T", " ", "T", "O", ":", "<", "u", "-", "1", "@", "s", ".", "d", ".", "i", "o", ">", "\r", "\n">>
\* "RCPT TO:<@h.io:u-1@s.d.io>\r\n"
L_RcptSubRoute ==
    <<"R", "C", "P", "T", " ", "T", "O", ":", "<", "@", "h", ".", "i", "o", ":", "u", "-", "1", "@", "s", ".", "d", ".", "i", "o", ">", "\r", "\n">>
\* "QUIT\n"
L_QuitLF ==
    <<"Q", "U", "I", "T", "\n">>
\* ""
P_Empty ==
    <<>>
\* "QUIT"
P_Quit ==
    <<"Q", "U", "I", "T">>
\* "DATA\r"
P_DataCR ==
    <<"D", "A", "T", "A", "\r">>
\* what ReadString('\n') returns with a nil error: a line that ends in "\n"
Lines ==
    {L_Blank, L_Ehlo, L_EhloTrail, L_HeloTwo, L_EhloNone,
     L_Mail, L_MailBare, L_MailNone, L_MailBad, L_MailTwo,
     L_Rcpt, L_RcptBare, L_RcptNone, L_RcptTwo, L_RcptRoute, L_RcptGlued,
     L_Data, L_DataArg, L_DataLead, L_Quit, L_QuitArg, L_Rset, L_RsetArg,
     L_Noop, L_NoopColon, L_Help, L_Vrfy, L_VrfyNone, L_ExpnNone,
     L_Short, L_Unknown, L_QuitLF}
\* what ReadString('\n') returns with an error: the bytes before the stream
\* ended or failed, with no "\n"
Partials == {P_Empty, P_Quit, P_DataCR}

\* more lines that ReadString can return with a nil error, for the grammar
\* of the arguments
MoreLines ==
    {L_EhloTab, L_EhloColon, L_RcptBad, L_RcptRoutes, L_RcptSub,
     L_RcptSubRoute}

\* command(line): the line with what each method of command returns for it,
\* computed once for each line the model reads
Cmd ==
    [c \in Lines \cup MoreLines \cup Partials |->
        [Verb |-> Verb(c), Arg |-> Arg(c), EmailAddress |-> EmailAddress(c),
         ValidLine |-> ValidLine(c), ValidHello |-> ValidHello(c),
         ValidMail |-> ValidMail(c), ValidRcpt |-> ValidRcpt(c),
         ValidData |-> ValidData(c), ValidQuit |-> ValidQuit(c)]]

(***************************************************************************)
(* Envelope, SessionValidity and Session.Valid (part_000, lines 490-660).  *)
(***************************************************************************)
\* NewEnvelope
NewEnvelope == [OriginatorAddress |-> <<>>, RecipientAddress |-> <<>>]

\* the SessionValidity that New builds
NewValidity == [HeloFirst |-> FALSE, MailFirst |-> FALSE, RcptFirst |-> FALSE]

SetHeloFirst(v, heloFirst) == [v EXCEPT !.HeloFirst = heloFirst]
SetMailFirst(v, mailFirst) == [v EXCEPT !.MailFirst = mailFirst]
SetRcptFirst(v, rcptFirst) == [v EXCEPT !.RcptFirst = rcptFirst]

\* a return of Session.Valid: (valid, err) and the SessionValidity it leaves
Rejected(err, v) == [valid |-> FALSE, err |-> err, v |-> v]
Accepted(v) == [valid |-> TRUE, err |-> nil, v |-> v]

\* a variant of ValidOnHello that sets the flag before it checks the argument
ValidOnHelloEager(v, c) ==
    IF c.ValidHello # nil THEN Rejected(c.ValidHello, SetHeloFirst(v, TRUE))
    ELSE Accepted(SetHeloFirst(v, TRUE))

\* a variant of ValidOnHello that starts a new transaction
ValidOnHelloResets(v, c) ==
    IF c.ValidHello # nil THEN Rejected(c.ValidHello, v)
    ELSE Accepted([HeloFirst |-> TRUE, MailFirst |-> FALSE, RcptFirst |-> FALSE])

\* Session.Valid, the EHLO/HELO branch
ValidOnHello(v, c) ==
    IF c.ValidHello # nil THEN Rejected(c.ValidHello, v)
    ELSE Accepted(SetHeloFirst(v, TRUE))

\* a variant of ValidOnMail without the test of HeloFirst
ValidOnMailNoGreeting(v, c) ==
    IF c.ValidMail # nil THEN Rejected(c.ValidMail, v)
    ELSE Accepted(SetMailFirst(v, TRUE))

\* a variant of ValidOnMail that checks the argument before HeloFirst
ValidOnMailSyntaxFirst(v, c) ==
    IF c.ValidMail # nil THEN Rejected(c.ValidMail, v)
    ELSE IF ~v.HeloFirst THEN Rejected(ehloFirstErr, v)
    ELSE Accepted(SetMailFirst(v, TRUE))

\* Session.Valid, the MAIL FROM: branch
ValidOnMail(v, c) ==
    IF ~v.HeloFirst THEN Rejected(ehloFirstErr, v)
    ELSE IF c.ValidMail # nil THEN Rejected(c.ValidMail, v)
    ELSE Accepted(SetMailFirst(v, TRUE))

\* a variant of ValidOnRcpt without the test of MailFirst
ValidOnRcptNoSender(v, c) ==
    IF ~v.HeloFirst THEN Rejected(ehloFirstErr, v)
    ELSE IF c.ValidRcpt # nil THEN Rejected(c.ValidRcpt, v)
    ELSE Accepted(SetRcptFirst(v, TRUE))

\* Session.Valid, the RCPT TO: branch
ValidOnRcpt(v, c) ==
    IF ~v.HeloFirst THEN Rejected(ehloFirstErr, v)
    ELSE IF ~v.MailFirst THEN Rejected(badSeqErr, v)
    ELSE IF c.ValidRcpt # nil THEN Rejected(c.ValidRcpt, v)
    ELSE Accepted(SetRcptFirst(v, TRUE))

\* a variant of ValidOnData that tests MailFirst only
ValidOnDataNoRecipient(v, c) ==
    IF ~v.HeloFirst THEN Rejected(ehloFirstErr, v)
    ELSE IF ~v.MailFirst THEN Rejected(badSeqErr, v)
    ELSE IF c.ValidData # nil THEN Rejected(c.ValidData, v)
    ELSE Accepted(v)

\* Session.Valid, the DATA branch
ValidOnData(v, c) ==
    IF ~v.HeloFirst THEN Rejected(ehloFirstErr, v)
    ELSE IF ~v.MailFirst \/ ~v.RcptFirst THEN Rejected(badSeqErr, v)
    ELSE IF c.ValidData # nil THEN Rejected(c.ValidData, v)
    ELSE Accepted(v)

\* a variant of ValidOnQuit that asks for HELO/EHLO first
ValidOnQuitAfterHello(v, c) ==
    IF ~v.HeloFirst THEN Rejected(ehloFirstErr, v)
    ELSE IF c.ValidQuit # nil THEN Rejected(c.ValidQuit, v)
    ELSE Accepted(v)

\* Session.Valid, the QUIT branch
ValidOnQuit(v, c) ==
    IF c.ValidQuit # nil THEN Rejected(c.ValidQuit, v) ELSE Accepted(v)

\* a variant of Valid in which RSET clears the three flags
ValidResetting(v, c) ==
    IF c.ValidLine # nil THEN Rejected(c.ValidLine, v)
    ELSE IF c.Verb = V_EHLO \/ c.Verb = V_HELO THEN ValidOnHello(v, c)
    ELSE IF c.Verb = V_MAIL THEN ValidOnMail(v, c)
    ELSE IF c.Verb = V_RCPT THEN ValidOnRcpt(v, c)
    ELSE IF c.Verb = V_DATA THEN ValidOnData(v, c)
    ELSE IF c.Verb = V_QUIT THEN ValidOnQuit(v, c)
    ELSE IF c.Verb = V_RSET THEN Accepted(NewValidity)
    ELSE Accepted(v)

\* Session.Valid
Valid(v, c) ==
    IF c.ValidLine # nil THEN Rejected(c.ValidLine, v)
    ELSE IF c.Verb = V_EHLO \/ c.Verb = V_HELO THEN ValidOnHello(v, c)
    ELSE IF c.Verb = V_MAIL THEN ValidOnMail(v, c)
    ELSE IF c.Verb = V_RCPT THEN ValidOnRcpt(v, c)
    ELSE IF c.Verb = V_DATA THEN ValidOnData(v, c)
    ELSE IF c.Verb = V_QUIT THEN ValidOnQuit(v, c)
    ELSE Accepted(v)

(***************************************************************************)
(* The switch of Session.Serve (part_000, lines 727-783): the reply each   *)
(* case transmits (NoReply for the cases that only log), the envelope it   *)
(* leaves, and whether the case returns after its reply.                   *)
(***************************************************************************)
NoReply == "<no reply>"
Case(reply, e, quit) == [reply |-> reply, envl |-> e, quit |-> quit]

\* a variant of OnMail that starts the envelope again
OnMailClearsRcpts(e, c) ==
    Case(REPLY_250,
         [OriginatorAddress |-> c.EmailAddress, RecipientAddress |-> <<>>],
         FALSE)

\* a variant of OnMail that keeps an originator it already has
OnMailKeepsFirst(e, c) ==
    Case(REPLY_250,
         [e EXCEPT !.OriginatorAddress = IF @ = <<>> THEN c.EmailAddress ELSE @],
         FALSE)

\* case "MAIL FROM:"
OnMail(e, c) ==
    Case(REPLY_250, [e EXCEPT !.OriginatorAddress = c.EmailAddress], FALSE)

\* a variant of OnRcpt that replies as the other cases do
OnRcptPlain(e, c) ==
    Case(REPLY_250,
         [e EXCEPT !.RecipientAddress = Append(@, c.EmailAddress)], FALSE)

\* a variant of OnRcpt that replies and leaves the envelope as it is
OnRcptReplyOnly(e, c) == Case(REPLY_250_RCPT, e, FALSE)

\* case "RCPT TO:"
OnRcpt(e, c) ==
    Case(REPLY_250_RCPT,
         [e EXCEPT !.RecipientAddress = Append(@, c.EmailAddress)], FALSE)

\* a variant of OnData that only logs
OnDataSilent(e, c) == Case(NoReply, e, FALSE)

\* case "DATA"
OnData(e, c) == Case(REPLY_354, e, FALSE)

\* case "QUIT"
OnQuit(e, c) == Case(REPLY_221, e, TRUE)

\* a variant of OnDefault that returns from Serve after its reply
OnDefaultReturns(e, c) == Case(REPLY_503, e, TRUE)

\* default
OnDefault(e, c) == Case(REPLY_503, e, FALSE)

Dispatch(e, c) ==
    IF c.Verb = V_HELO THEN Case(REPLY_250, e, FALSE)
    ELSE IF c.Verb = V_EHLO THEN Case(REPLY_250, e, FALSE)
    ELSE IF c.Verb = V_MAIL THEN OnMail(e, c)
    ELSE IF c.Verb = V_RCPT THEN OnRcpt(e, c)
    ELSE IF c.Verb = V_DATA THEN OnData(e, c)
    ELSE IF c.Verb = CRLF THEN Case(NoReply, e, FALSE)
    ELSE IF c.Verb = V_RSET THEN Case(NoReply, e, FALSE)
    ELSE IF c.Verb = V_QUIT THEN OnQuit(e, c)
    ELSE IF c.Verb \in {V_NOOP, V_HELP, V_EXPN, V_VRFY} THEN Case(NoReply, e, FALSE)
    ELSE OnDefault(e, c)

(***************************************************************************)
(* One iteration of the loop of Session.Serve (part_000, lines 697-785),   *)
(* as a function of what the iteration reads: the session's validity v and *)
(* envelope e, whether ChanClosed is closed when CheckChanClosed selects,  *)
(* the command c of the line that ReadString returned (rerr: err # nil),   *)
(* and which flush of the iteration fails (fail: 1 the first, 2 the        *)
(* second, 0 none).                                                        *)
(* The result says what the iteration wrote and how it ended: "" when it   *)
(* loops again, else the return statement that left Serve.                 *)
(***************************************************************************)
Write(text, ok) == [text |-> text, ok |-> ok]

\* a variant of CheckChanClosed whose select always takes the default
CheckChanClosedNever(closed) == FALSE

\* Session.CheckChanClosed: whether the select takes the case <-s.ChanClosed
\* (and transmits REPLY_453) rather than the default
CheckChanClosed(closed) == closed

\* a variant of ShutdownReply that transmits nothing
ShutdownReplyNone(ok) == <<>>

\* Session.CheckChanClosed, the case <-s.ChanClosed: Transmit(REPLY_453)
ShutdownReply(ok) == <<Write(REPLY_453, ok)>>

\* a variant of RetryReply that transmits nothing
RetryReplySilent(rerr, ok) == <<>>

\* the reply to a failed ReadString: Transmit(REPLY_453), nothing when the
\* read returned a nil error
RetryReply(rerr, ok) == IF rerr THEN <<Write(REPLY_453, ok)>> ELSE <<>>

\* a variant of AfterRetry that reads again after the retry reply
AfterRetryReadsAgain(rerr, ok) ==
    IF rerr THEN (IF ok THEN "" ELSE "retry write failed") ELSE "go on"

\* after ReadString: return if the flush of the retry reply failed, else go
\* on to CheckChanClosed and Valid with the line, read error or not
AfterRetry(rerr, ok) == IF rerr /\ ~ok THEN "retry write failed" ELSE "go on"

\* a variant of ErrorReply that transmits nothing
ErrorReplySilent(err, ok) == <<>>

\* TransmitErr(err) for a line that Valid rejected
ErrorReply(err, ok) == <<Write(err, ok)>>

\* a variant of AfterError that returns from Serve
AfterErrorReturns(ok) == "error write failed"

\* after TransmitErr(err) of a rejected line: return if the flush failed,
\* else continue
AfterError(ok) == IF ok THEN "" ELSE "error write failed"

\* a variant of AfterReply that reads the next line whatever Transmit returned
AfterReplyGoesOn(ok, quit) == IF quit THEN "quit" ELSE ""

\* after Transmit(reply) in a case of the switch: return if the flush
\* failed, return after REPLY_221, else read the next line
AfterReply(ok, quit) ==
    IF ~ok THEN "reply write failed" ELSE IF quit THEN "quit" ELSE ""

Iteration(v, e, closed, c, rerr, fail) ==
    LET ok1 == fail # 1
        retry == RetryReply(rerr, ok1)
        \* the flush that follows the retry reply, if there was one
        okNext == IF rerr THEN fail # 2 ELSE ok1
        r == Valid(v, c)
        d == Dispatch(e, c)
        out(v2, e2, writes, ret, shut, evaluated, err, dispatched) ==
            [v |-> v2, e |-> e2, writes |-> writes, ret |-> ret,
             shut |-> shut, evaluated |-> evaluated, err |-> err,
             dispatched |-> dispatched, verb |-> c.Verb,
             lineErr |-> c.ValidLine, arg |-> c.Arg,
             addr |-> c.EmailAddress]
    IN  IF AfterRetry(rerr, ok1) # "go on"
        THEN out(v, e, retry, AfterRetry(rerr, ok1), FALSE, FALSE, nil, FALSE)
        ELSE IF CheckChanClosed(closed)
        THEN out(v, e, retry \o ShutdownReply(okNext),
                 "shutdown", TRUE, FALSE, nil, FALSE)
        ELSE IF ~r.valid /\ r.err # nil
        THEN out(r.v, e, retry \o ErrorReply(r.err, okNext),
                 AfterError(okNext),
                 FALSE, TRUE, r.err, FALSE)
        ELSE IF d.reply = NoReply
        THEN out(r.v, d.envl, retry, "", FALSE, TRUE, r.err, TRUE)
        ELSE out(r.v, d.envl, retry \o <<Write(d.reply, okNext)>>,
                 AfterReply(okNext, d.quit),
                 FALSE, TRUE, r.err, TRUE)

(***************************************************************************)
(* State.  The sessions are the domain of pc; peer[s] is what the peer of   *)
(* session s does: it sends any line ("free"), any of a few lines ("few"), *)
(* any line and more with no failed read ("probe"),                        *)
(* or the lines of a script that are left, in order ("script"); after its  *)
(* script an "ending" peer closes its side of the stream, and every read   *)
(* then fails with io.EOF.                                                 *)
(***************************************************************************)
FreePeer == [mode |-> "free", script |-> <<>>]
FewPeer == [mode |-> "few", script |-> <<>>]
ProbePeer == [mode |-> "probe", script |-> <<>>]
Scripted(script) == [mode |-> "script", script |-> script]
Ending(script) == [mode |-> "ending", script |-> script]

\* the lines of a peer that chooses among a few
FewLines == {L_Ehlo, L_Mail, L_Rcpt, L_RcptBare, L_Quit}
FewPartials == {P_Quit}

\* the scenario of a complete transaction
Scenario == <<L_Ehlo, L_Mail, L_Rcpt, L_Data, L_Quit>>

\* what a peer sends before it closes its side without QUIT
Opening == <<L_Ehlo, L_Mail>>

NoStep ==
    [op |-> "none", s |-> 0, line |-> <<>>, rerr |-> FALSE,
     pre |-> [v |-> NewValidity, e |-> NewEnvelope],
     turn |-> 0, verb |-> <<>>, lineErr |-> nil, arg |-> <<>>,
     addr |-> <<>>, closed |-> FALSE,
     writes |-> <<>>, shut |-> FALSE, evaluated |-> FALSE, err |-> nil,
     dispatched |-> FALSE]

\* TestMain: server.Wg.Add(1), go server.Run(), <-server.Ready; no
\* connection has been accepted yet
InitWith(S, p) ==
    /\ pc = [s \in S |-> "idle"]
    /\ Validity = [s \in S |-> NewValidity]
    /\ envl = [s \in S |-> NewEnvelope]
    /\ peer = [s \in S |-> p]
    /\ exit = [s \in S |-> ""]
    /\ done = [s \in S |-> 0]
    /\ conn = [s \in S |-> "none"]
    /\ connCloses = [s \in S |-> 0]
    /\ wg = 1
    /\ ChanClosed = FALSE
    /\ runPc = "select"
    /\ stopPc = "idle"
    /\ last = NoStep


(***************************************************************************)
(* SMTPserver.Run and SMTPserver.Stop (session_test.go, lines 404-437).    *)
(***************************************************************************)
\* the select at the top of Run's loop: on Stoped, close the listener and
\* return (the deferred Wg.Done runs); else go on to AcceptTCP
RunSelect ==
    /\ runPc = "select"
    /\ IF ChanClosed
       THEN /\ runPc' = "done"
            /\ wg' = wg - 1
       ELSE /\ runPc' = "accept"
            /\ wg' = wg
    /\ UNCHANGED <<pc, Validity, envl, peer, exit, done, conn, connCloses,
                   ChanClosed, stopPc, last>>

\* a variant of RunAccept that starts the session without Wg.Add(1)
RunAcceptNoAdd ==
    /\ runPc = "accept"
    /\ \E s \in DOMAIN pc :
          /\ pc[s] = "idle"
          /\ \A t \in DOMAIN pc : t < s => pc[t] # "idle"
          /\ wg' = wg
          /\ pc' = [pc EXCEPT ![s] = "greet"]
          /\ Validity' = [Validity EXCEPT ![s] = NewValidity]
          /\ conn' = [conn EXCEPT ![s] = "open"]
    /\ runPc' = "select"
    /\ UNCHANGED <<envl, peer, exit, done, connCloses, ChanClosed, stopPc, last>>

\* a variant of RunAccept in which New hands every session the same
\* SessionValidity, built anew for each connection
RunAcceptSharedValidity ==
    /\ runPc = "accept"
    /\ \E s \in DOMAIN pc :
          /\ pc[s] = "idle"
          /\ \A t \in DOMAIN pc : t < s => pc[t] # "idle"
          /\ wg' = wg + 1
          /\ pc' = [pc EXCEPT ![s] = "greet"]
          /\ Validity' = [t \in DOMAIN pc |-> NewValidity]
          /\ conn' = [conn EXCEPT ![s] = "open"]
    /\ runPc' = "select"
    /\ UNCHANGED <<envl, peer, exit, done, connCloses, ChanClosed, stopPc, last>>

\* AcceptTCP returns a connection: Wg.Add(1), New, go s.Serve()
RunAccept ==
    /\ runPc = "accept"
    /\ \E s \in DOMAIN pc :
          /\ pc[s] = "idle"
          /\ \A t \in DOMAIN pc : t < s => pc[t] # "idle"
          /\ wg' = wg + 1
          /\ pc' = [pc EXCEPT ![s] = "greet"]
          /\ Validity' = [Validity EXCEPT ![s] = NewValidity]
          /\ conn' = [conn EXCEPT ![s] = "open"]
    /\ runPc' = "select"
    /\ UNCHANGED <<envl, peer, exit, done, connCloses, ChanClosed, stopPc, last>>

\* AcceptTCP runs into the one-second deadline: continue
RunTimeout ==
    /\ runPc = "accept"
    /\ runPc' = "select"
    /\ UNCHANGED <<pc, Validity, envl, peer, exit, done, conn, connCloses, wg,
                   ChanClosed, stopPc, last>>

\* Stop: close(smtps.Stoped)
StopClose ==
    /\ stopPc = "idle"
    /\ ChanClosed' = TRUE
    /\ stopPc' = "wait"
    /\ UNCHANGED <<pc, Validity, envl, peer, exit, done, conn, connCloses, wg,
                   runPc, last>>

\* Stop: smtps.Wg.Wait() returns
StopWait ==
    /\ stopPc = "wait"
    /\ wg = 0
    /\ stopPc' = "returned"
    /\ UNCHANGED <<pc, Validity, envl, peer, exit, done, conn, connCloses, wg,
                   ChanClosed, runPc, last>>

(***************************************************************************)
(* Session.Serve and Session.Close (part_000, lines 543-553, 680-786).     *)
(***************************************************************************)
\* a variant of Greet that goes on to the loop whatever Transmit returned
GreetIgnoresFailure(s) ==
    /\ pc[s] = "greet"
    /\ \E ok \in BOOLEAN :
          /\ last' = [NoStep EXCEPT !.op = "greet", !.s = s,
                         !.pre = [v |-> Validity[s], e |-> envl[s]],
                         !.writes = <<Write(REPLY_220, ok)>>]
          /\ pc' = [pc EXCEPT ![s] = "read"]
          /\ exit' = exit
          /\ envl' = [envl EXCEPT ![s] = NewEnvelope]
    /\ UNCHANGED <<Validity, peer, done, conn, connCloses, wg, ChanClosed,
                   runPc, stopPc>>

\* a variant of Greet that transmits the greeting twice
GreetTwice(s) ==
    /\ pc[s] = "greet"
    /\ \E ok \in BOOLEAN :
          /\ last' = [NoStep EXCEPT !.op = "greet", !.s = s,
                         !.pre = [v |-> Validity[s], e |-> envl[s]],
                         !.writes = <<Write(REPLY_220, TRUE), Write(REPLY_220, ok)>>]
          /\ pc' = [pc EXCEPT ![s] = IF ok THEN "read" ELSE "close"]
          /\ exit' = [exit EXCEPT ![s] = IF ok THEN "" ELSE "greeting write failed"]
          /\ envl' = [envl EXCEPT ![s] = IF ok THEN NewEnvelope ELSE @]
    /\ UNCHANGED <<Validity, peer, done, conn, connCloses, wg, ChanClosed,
                   runPc, stopPc>>

\* Serve up to the loop: transmit the greeting, return if that fails, else
\* create the envelope
Greet(s) ==
    /\ pc[s] = "greet"
    /\ \E ok \in BOOLEAN :
          /\ last' = [NoStep EXCEPT !.op = "greet", !.s = s,
                         !.pre = [v |-> Validity[s], e |-> envl[s]],
                         !.writes = <<Write(REPLY_220, ok)>>]
          /\ pc' = [pc EXCEPT ![s] = IF ok THEN "read" ELSE "close"]
          /\ exit' = [exit EXCEPT ![s] = IF ok THEN "" ELSE "greeting write failed"]
          /\ envl' = [envl EXCEPT ![s] = IF ok THEN NewEnvelope ELSE @]
    /\ UNCHANGED <<Validity, peer, done, conn, connCloses, wg, ChanClosed,
                   runPc, stopPc>>

\* the lines, and the partial lines, that a peer without a script sends
PeerLines(mode) ==
    IF mode = "few" THEN FewLines
    ELSE IF mode = "probe" THEN Lines \cup MoreLines
    ELSE Lines
PeerPartials(mode) ==
    IF mode = "few" THEN FewPartials
    ELSE IF mode = "probe" THEN {}
    ELSE Partials

\* what ReadString can return to session s: an input is (line, err) with the
\* flush of the iteration that fails.  A free peer sends any line, or the
\* read fails after any partial line; a scripted peer sends its next line;
\* once an ending peer has sent its script, ReadString returns ("", io.EOF).
Input(line, rerr, fail) == [line |-> line, rerr |-> rerr, fail |-> fail]
Inputs(s) ==
    IF peer[s].mode \in {"script", "ending"}
    THEN IF peer[s].script # <<>>
         THEN {Input(Head(peer[s].script), FALSE, f) : f \in 0..1}
         ELSE IF peer[s].mode = "ending"
              THEN {Input(P_Empty, TRUE, f) : f \in 0..2}
              ELSE {}
    ELSE {Input(l, FALSE, f) : l \in PeerLines(peer[s].mode), f \in 0..1}
         \cup
         {Input(l, TRUE, f) : l \in PeerPartials(peer[s].mode), f \in 0..2}

\* one iteration of the loop, from the return of ReadString with (line, err)
\* to the next ReadString or to the return of Serve
Loop(s) ==
    /\ pc[s] = "read"
    /\ \E in \in Inputs(s) :
       \E it \in {Iteration(Validity[s], envl[s], ChanClosed,
                            Cmd[in.line], in.rerr, in.fail)} :
              /\ Len(it.e.RecipientAddress) <= MaxRcpts
              /\ Validity' = [Validity EXCEPT ![s] = it.v]
              /\ envl' = [envl EXCEPT ![s] = it.e]
              /\ pc' = [pc EXCEPT ![s] = IF it.ret = "" THEN "read" ELSE "close"]
              /\ exit' = [exit EXCEPT ![s] = it.ret]
              /\ last' = [op |-> "loop", s |-> s, turn |-> 1 - last.turn,
                          line |-> in.line,
                          rerr |-> in.rerr, verb |-> it.verb,
                          lineErr |-> it.lineErr, arg |-> it.arg,
                          addr |-> it.addr, closed |-> ChanClosed,
                          pre |-> [v |-> Validity[s], e |-> envl[s]],
                          writes |-> it.writes, shut |-> it.shut,
                          evaluated |-> it.evaluated, err |-> it.err,
                          dispatched |-> it.dispatched]
    /\ peer' = [peer EXCEPT ![s].script = IF @ = <<>> THEN @ ELSE Tail(@)]
    /\ UNCHANGED <<done, conn, connCloses, wg, ChanClosed, runPc, stopPc>>

\* a variant of CloseDone that calls s.Wg.Done() twice
CloseDoneTwice(s) ==
    /\ pc[s] = "close"
    /\ wg' = wg - 2
    /\ done' = [done EXCEPT ![s] = @ + 2]
    /\ pc' = [pc EXCEPT ![s] = "closeconn"]
    /\ UNCHANGED <<Validity, envl, peer, exit, conn, connCloses, ChanClosed,
                   runPc, stopPc, last>>

\* the deferred Close, first statement: s.Wg.Done()
CloseDone(s) ==
    /\ pc[s] = "close"
    /\ wg' = wg - 1
    /\ done' = [done EXCEPT ![s] = @ + 1]
    /\ pc' = [pc EXCEPT ![s] = "closeconn"]
    /\ UNCHANGED <<Validity, envl, peer, exit, conn, connCloses, ChanClosed,
                   runPc, stopPc, last>>

\* the deferred Close, second statement: s.Conn.Close()
CloseConn(s) ==
    /\ pc[s] = "closeconn"
    /\ conn' = [conn EXCEPT ![s] = "closed"]
    /\ connCloses' = [connCloses EXCEPT ![s] = @ + 1]
    /\ pc' = [pc EXCEPT ![s] = "closed"]
    /\ UNCHANGED <<Validity, envl, peer, exit, done, wg, ChanClosed,
                   runPc, stopPc, last>>

Next ==
    \/ RunSelect
    \/ RunAccept
    \/ RunTimeout
    \/ StopClose
    \/ StopWait
    \/ \E s \in DOMAIN pc : Greet(s)
    \/ \E s \in DOMAIN pc : Loop(s)
    \/ \E s \in DOMAIN pc : CloseDone(s)
    \/ \E s \in DOMAIN pc : CloseConn(s)

(***************************************************************************)
(* Specifications: the same program under three peers.                     *)
(***************************************************************************)
\* one connection, the peer free to send any line
Init == InitWith(Solo, FreePeer)
Spec == Init /\ [][Next]_vars

\* one connection, the peer free to send any line of the wider sample
ProbeSpec == InitWith(Solo, ProbePeer) /\ [][Next]_vars

\* two connections at the same time, each peer choosing among a few lines
PairSpec == InitWith(Pair, FewPeer) /\ [][Next]_vars

\* two connections, each peer sending the lines of the scenario in order
ScenarioSpec == InitWith(Pair, Scripted(Scenario)) /\ [][Next]_vars

(***************************************************************************)
(* Fairness.  Every goroutine that can take a step takes it: the select    *)
(* and the bounded AcceptTCP of Run, Wg.Wait of Stop, the greeting and the *)
(* deferred Close of a session.  ReadString has no deadline: it returns    *)
(* only when the peer sends or the stream ends, so Loop has no fairness.   *)
(***************************************************************************)
Fairness ==
    /\ WF_vars(RunSelect)
    /\ WF_vars(RunAccept \/ RunTimeout)
    /\ WF_vars(StopWait)
    /\ \A s \in Solo : /\ WF_vars(Greet(s))
                       /\ WF_vars(CloseDone(s))
                       /\ WF_vars(CloseConn(s))

FairSpec == Spec /\ Fairness

\* one connection whose peer sends Opening and closes its side of the stream
EndSpec == InitWith(Solo, Ending(Opening)) /\ [][Next]_vars

\* at the end of the stream ReadString returns at once, so the loop of a
\* session whose peer has closed goes round without waiting
EndFairSpec == EndSpec /\ Fairness /\ \A s \in Solo : WF_vars(Loop(s))

(***************************************************************************)
(* Properties.  A property about one line reads it from last, the record   *)
(* of the most recent step of Serve: the session, the line, the flags and  *)
(* the envelope before the step, what the step wrote and how it ended.     *)
(***************************************************************************)
Sessions == DOMAIN pc
Closing == {"close", "closeconn", "closed"}

\* the last step was an iteration that evaluated a line ending in CRLF
\* whose verb is verb
Evaluated(verb) ==
    /\ last.op = "loop"
    /\ last.evaluated
    /\ last.lineErr = nil
    /\ last.verb = verb

\* the texts the last step transmitted, in order
Texts == [i \in DOMAIN last.writes |-> last.writes[i].text]
Wrote(text) == \E i \in DOMAIN last.writes : last.writes[i].text = text

\* C1: in every state of every session, RcptFirst implies MailFirst and
\* MailFirst implies HeloFirst
FlagChain ==
    \A s \in Sessions :
        /\ Validity[s].RcptFirst => Validity[s].MailFirst
        /\ Validity[s].MailFirst => Validity[s].HeloFirst

\* C1, its case: a session that is reading lines has all three flags set
FlagChainWitness ==
    \E s \in Sessions :
        /\ pc[s] = "read"
        /\ Validity[s].RcptFirst
        /\ Validity[s].MailFirst
        /\ Validity[s].HeloFirst

\* C2: an iteration transmits REPLY_354 only for a line whose verb is DATA
\* evaluated with HeloFirst, MailFirst and RcptFirst all true; a line ending
\* in CRLF whose verb is DATA, evaluated with one of the flags false, is
\* answered with one of the two 503 sequence errors and not with REPLY_354
DataNeedsAllFlags ==
    /\ (last.op = "loop" /\ Wrote(REPLY_354)) =>
          /\ last.verb = V_DATA
          /\ last.pre.v.HeloFirst
          /\ last.pre.v.MailFirst
          /\ last.pre.v.RcptFirst
    /\ (/\ Evaluated(V_DATA)
        /\ ~(last.pre.v.HeloFirst /\ last.pre.v.MailFirst /\ last.pre.v.RcptFirst)) =>
          /\ last.err \in {ehloFirstErr, badSeqErr}
          /\ Texts = <<last.err>>
          /\ ~last.dispatched

\* C2, its cases: DATA answered with REPLY_354, and DATA after EHLO and MAIL
\* but before any RCPT answered with badSeqErr
DataGoAheadWitness ==
    /\ Evaluated(V_DATA)
    /\ last.line = L_Data
    /\ Texts = <<REPLY_354>>

DataTooEarlyWitness ==
    /\ Evaluated(V_DATA)
    /\ last.pre.v.MailFirst
    /\ ~last.pre.v.RcptFirst
    /\ Texts = <<badSeqErr>>

\* C3: a line ending in CRLF whose verb is RCPT TO:, evaluated while
\* MailFirst is false, makes Valid return a 503 sequence error whatever its
\* argument, and RcptFirst is false afterwards
RcptBeforeMail ==
    (Evaluated(V_RCPT) /\ ~last.pre.v.MailFirst) =>
        /\ last.err \in {ehloFirstErr, badSeqErr}
        /\ ~Validity[last.s].RcptFirst
        /\ ~last.dispatched

\* C3, its case: the valid bracketed recipient after EHLO and before MAIL
RcptBeforeMailWitness ==
    /\ Evaluated(V_RCPT)
    /\ last.line = L_Rcpt
    /\ last.pre.v.HeloFirst
    /\ ~last.pre.v.MailFirst
    /\ last.err = badSeqErr

\* C4: a line ending in CRLF whose verb is MAIL FROM:, evaluated while
\* HeloFirst is false, makes Valid return ehloFirstErr whatever its argument;
\* MailFirst is false afterwards and OriginatorAddress is not written
MailBeforeHello ==
    (Evaluated(V_MAIL) /\ ~last.pre.v.HeloFirst) =>
        /\ last.err = ehloFirstErr
        /\ ~Validity[last.s].MailFirst
        /\ envl[last.s].OriginatorAddress = last.pre.e.OriginatorAddress
        /\ ~last.dispatched

\* C4, its cases: the valid sender and a sender with no address, each as
\* the first line of a session
MailBeforeHelloWitness ==
    /\ Evaluated(V_MAIL)
    /\ last.line = L_Mail
    /\ ~last.pre.v.HeloFirst
    /\ Texts = <<ehloFirstErr>>

MailNoneBeforeHelloWitness ==
    /\ Evaluated(V_MAIL)
    /\ last.line = L_MailNone
    /\ ~last.pre.v.HeloFirst
    /\ Texts = <<ehloFirstErr>>

\* C5: when Valid rejects a line, the flags and the envelope of the session
\* are what they were before the line was read, and the switch on the verb
\* is not reached
RejectedLineChangesNothing ==
    (last.op = "loop" /\ last.evaluated /\ last.err # nil) =>
        /\ Validity[last.s] = last.pre.v
        /\ envl[last.s] = last.pre.e
        /\ ~last.dispatched

\* C5, its case: a rejected recipient in a session that has a sender and a
\* recipient already
RejectedLineWitness ==
    /\ last.op = "loop"
    /\ last.evaluated
    /\ last.err = invalidRcptEmailErr
    /\ last.pre.v.RcptFirst
    /\ Len(last.pre.e.RecipientAddress) > 0
    /\ Len(last.pre.e.OriginatorAddress) > 0

\* C6: the replies of the scenario, line by line
ScenarioReplies ==
    <<REPLY_250, REPLY_250, REPLY_250_RCPT, REPLY_354, REPLY_221>>

\* the number of lines of the scenario that session s has read
LinesRead(s) == Len(Scenario) - Len(peer[s].script)

\* C6: in a session that reads the scenario with no shutdown and no failed
\* write, the greeting is REPLY_220, the k-th line is answered with exactly
\* the k-th of 250, 250, 250 2.1.5, 354, 221, the session goes on after each
\* of the first four and returns after the fifth, and its connection is
\* closed once Close has run
ScenarioAnswers ==
    /\ (last.op = "greet" /\ exit[last.s] = "") => Texts = <<REPLY_220>>
    /\ (last.op = "loop" /\ ~last.closed /\ exit[last.s] \in {"", "quit"}) =>
          /\ last.line = Scenario[LinesRead(last.s)]
          /\ last.writes = <<Write(ScenarioReplies[LinesRead(last.s)], TRUE)>>
          /\ exit[last.s] = "quit" <=> LinesRead(last.s) = Len(Scenario)
    /\ \A s \in Sessions :
          /\ exit[s] = "quit" => pc[s] \in Closing
          /\ pc[s] = "closed" => conn[s] = "closed"

\* C6, its case: a session has read the five lines, answered QUIT with
\* REPLY_221 and closed its connection, and no shutdown was signalled
ScenarioWitness ==
    /\ ~ChanClosed
    /\ last.op = "loop"
    /\ last.line = L_Quit
    /\ Texts = <<REPLY_221>>
    /\ peer[last.s].script = <<>>
    /\ exit[last.s] = "quit"
    /\ pc[last.s] = "closed"
    /\ conn[last.s] = "closed"

\* C7: a session that has left Serve, by whichever return, runs Close: it
\* calls Wg.Done() and Conn.Close() once each, never twice, and a session
\* that is still in Serve has called neither
ClosesOnce ==
    \A s \in Sessions :
        /\ done[s] <= 1
        /\ connCloses[s] <= 1
        /\ exit[s] # "" <=> pc[s] \in Closing
        /\ pc[s] \in {"idle", "greet", "read", "close"} =>
              done[s] = 0 /\ connCloses[s] = 0 /\ conn[s] # "closed"
        /\ pc[s] = "closeconn" => done[s] = 1 /\ connCloses[s] = 0
        /\ pc[s] = "closed" =>
              done[s] = 1 /\ connCloses[s] = 1 /\ conn[s] = "closed"

\* C7: and Close runs to its end after every return of Serve
ClosesAfterExit ==
    /\ []ClosesOnce
    /\ \A s \in Solo : (exit[s] # "") ~> (done[s] = 1 /\ connCloses[s] = 1)

\* C7, its cases: a session closed after each kind of return
ClosedAfterQuitWitness ==
    \E s \in Sessions :
        pc[s] = "closed" /\ exit[s] = "quit" /\ done[s] = 1 /\ connCloses[s] = 1

ClosedAfterGreetingWitness ==
    \E s \in Sessions : pc[s] = "closed" /\ exit[s] = "greeting write failed"

ClosedAfterWriteWitness ==
    \E s \in Sessions : pc[s] = "closed" /\ exit[s] = "reply write failed"

ClosedAfterShutdownWitness ==
    \E s \in Sessions : pc[s] = "closed" /\ exit[s] = "shutdown"

\* C8: an iteration that reaches CheckChanClosed while ChanClosed is closed
\* transmits REPLY_453 last and returns, whether the read returned a line,
\* a partial line or an error; Valid and the switch are not reached, and the
\* flags and the envelope are what they were before the read
ShutdownObserved ==
    (last.op = "loop" /\ last.closed /\ exit[last.s] # "retry write failed") =>
        /\ last.shut
        /\ exit[last.s] = "shutdown"
        /\ pc[last.s] \in Closing
        /\ Len(last.writes) > 0
        /\ last.writes[Len(last.writes)].text = REPLY_453
        /\ ~last.evaluated
        /\ ~last.dispatched
        /\ Validity[last.s] = last.pre.v
        /\ envl[last.s] = last.pre.e

\* C8, its cases: shutdown observed after a valid RCPT TO: line was read in
\* a session that would have accepted it, and after a failed read
ShutdownAfterLineWitness ==
    /\ last.op = "loop"
    /\ last.closed
    /\ last.line = L_Rcpt
    /\ ~last.rerr
    /\ last.pre.v.MailFirst
    /\ last.writes = <<Write(REPLY_453, TRUE)>>
    /\ exit[last.s] = "shutdown"

ShutdownAfterReadErrorWitness ==
    /\ last.op = "loop"
    /\ last.closed
    /\ last.rerr
    /\ exit[last.s] = "shutdown"

\* C9: once the shutdown is signalled, every session that was created closes
\* and Stop returns, even if the peer sends nothing more
ShutdownDrains ==
    ChanClosed ~>
        /\ stopPc = "returned"
        /\ \A s \in Solo : pc[s] \in {"idle", "closed"}

\* C9, its case: the shutdown is signalled while a session waits in
\* ReadString
SilentPeerWitness ==
    /\ ChanClosed
    /\ stopPc = "wait"
    /\ runPc = "done"
    /\ \E s \in Sessions : pc[s] = "read"

\* the sessions New has created, and those whose Close has called Wg.Done()
Created == {s \in Sessions : pc[s] # "idle"}
Exited == {s \in Sessions : done[s] > 0}

\* C10: with several sessions at once, the WaitGroup counter is the one of
\* Run, plus one for each session created, minus one for each session that
\* has exited; it is never negative, and Wg.Wait() of Stop returns only when
\* Run has returned and every session created has exited
TrackerCounts ==
    /\ wg = (IF runPc = "done" THEN 0 ELSE 1)
             + Cardinality(Created) - Cardinality(Exited)
    /\ wg >= 0
    /\ \A s \in Sessions : done[s] <= 1
    /\ Exited \subseteq Created
    /\ stopPc = "returned" => (runPc = "done" /\ Exited = Created)

\* C10, its cases: two sessions reading at the same time, and Stop returned
\* after two sessions were created
TwoSessionsWitness ==
    /\ \A s \in Pair : pc[s] = "read"
    /\ wg = 3

DrainedWitness ==
    /\ stopPc = "returned"
    /\ Created = Pair
    /\ Exited = Pair

\* every write of the last step was flushed
AllWritten == \A i \in DOMAIN last.writes : last.writes[i].ok

\* the last step was an iteration in which Valid accepted a line with verb
\* verb and the switch was reached
Accepts(step, verb) ==
    /\ step.op = "loop"
    /\ step.evaluated
    /\ step.err = nil
    /\ step.dispatched
    /\ step.verb = verb

\* C11: a Transmit that fails is the last write of its step and Serve
\* returns on it, whichever reply it carried
FailedWriteIsLast ==
    last.op \in {"greet", "loop"} =>
        \A i \in DOMAIN last.writes :
            ~last.writes[i].ok =>
                /\ i = Len(last.writes)
                /\ exit[last.s] # ""
                /\ pc[last.s] \in Closing

\* C11: a failed write or flush of any reply is fatal: it is the last write
\* of the session, and a session that has returned from Serve reads and
\* writes nothing more and goes through Close
WriteFailureFatal ==
    /\ []FailedWriteIsLast
    /\ [][\A s \in Solo :
             exit[s] # "" => (last' = last /\ pc'[s] \in Closing)]_vars

\* C11, its case: the flush of an error reply failed and the session closed
ErrorWriteFailedWitness ==
    /\ last.op = "loop"
    /\ last.err = badSeqErr
    /\ last.writes = <<Write(badSeqErr, FALSE)>>
    /\ exit[last.s] = "error write failed"
    /\ pc[last.s] = "closed"

\* C12: what a session has written by the time it reads: REPLY_220, once
GreetingWritten ==
    /\ \A s \in Solo : pc[s] \in {"idle", "greet"} => last.op = "none"
    /\ \A s \in Solo : pc[s] = "read" => last.op \in {"greet", "loop"}
    /\ last.op = "greet" =>
          /\ Len(last.writes) = 1
          /\ last.writes[1].text = REPLY_220
          /\ last.writes[1].ok => pc[last.s] = "read"
          /\ ~last.writes[1].ok =>
                exit[last.s] = "greeting write failed" /\ pc[last.s] \in Closing
    /\ last.op = "loop" => ~Wrote(REPLY_220)
    /\ \A s \in Solo : exit[s] = "greeting write failed" => last.op = "greet"

\* C12: REPLY_220 is the first write of a session, made before any line is
\* read and once only; when its flush fails the session goes to Close and
\* never reads a line
GreetingFirst ==
    /\ []GreetingWritten
    /\ [][/\ (last'.op = "greet" /\ last' # last) => last.op = "none"
          /\ last.op = "loop" => last'.op = "loop"]_vars

\* C12, its case: the greeting could not be flushed and the session closed
\* with no line read
GreetingFailedWitness ==
    /\ last.op = "greet"
    /\ last.writes = <<Write(REPLY_220, FALSE)>>
    /\ pc[last.s] = "closed"
    /\ conn[last.s] = "closed"

\* C13: a line that Valid rejects, its error reply flushed, leaves the
\* session at ReadString for the next line, whichever the error
RejectionContinues ==
    (last.op = "loop" /\ last.evaluated /\ last.err # nil /\ AllWritten) =>
        /\ last.err \in {syntaxErr, invalidCommandArgErr, ehloFirstErr,
                         badSeqErr, invalidRcptEmailErr}
        /\ last.writes[Len(last.writes)].text = last.err
        /\ exit[last.s] = ""
        /\ pc[last.s] = "read"

\* C13, its case: the session reads on after an invalid-argument error that
\* followed an accepted sender
RejectionContinuesWitness ==
    /\ last.op = "loop"
    /\ last.evaluated
    /\ last.err = invalidCommandArgErr
    /\ last.pre.v.MailFirst
    /\ AllWritten
    /\ pc[last.s] = "read"

\* C14 as stated: after a read error with ChanClosed open, the session stays
\* in the loop provided the retry reply was flushed
ReadErrorContinues ==
    (/\ last.op = "loop"
     /\ last.rerr
     /\ ~last.closed
     /\ last.writes[1].ok) => pc[last.s] = "read"

\* C14: after a read error with ChanClosed open the session transmits
\* REPLY_453, goes on to Valid with the partial line, which ValidLine rejects,
\* transmits syntaxErr, and stays in the loop provided both replies were
\* flushed
ReadErrorRetries ==
    (last.op = "loop" /\ last.rerr /\ ~last.closed) =>
        /\ Len(last.writes) >= 1
        /\ last.writes[1].text = REPLY_453
        /\ last.writes[1].ok =>
              /\ last.evaluated
              /\ last.err = syntaxErr
              /\ Texts = <<REPLY_453, syntaxErr>>
        /\ AllWritten <=> (exit[last.s] = "" /\ pc[last.s] = "read")

\* C14, its case: a read failed after the bytes QUIT, both replies were
\* flushed and the session is at ReadString again
ReadErrorWitness ==
    /\ last.op = "loop"
    /\ last.rerr
    /\ last.line = P_Quit
    /\ ~last.closed
    /\ last.writes = <<Write(REPLY_453, TRUE), Write(syntaxErr, TRUE)>>
    /\ pc[last.s] = "read"

\* C15: once the peer has closed the stream, the session leaves its loop and
\* closes
StreamEndTerminates ==
    \A s \in Solo :
        (pc[s] = "read" /\ peer[s].script = <<>>) ~> (pc[s] = "closed")

\* C15, its case: ReadString returned io.EOF, no shutdown was signalled, and
\* the session is at ReadString again
StreamEndWitness ==
    /\ last.op = "loop"
    /\ last.rerr
    /\ last.line = P_Empty
    /\ peer[last.s].script = <<>>
    /\ ~ChanClosed
    /\ Texts = <<REPLY_453, syntaxErr>>
    /\ pc[last.s] = "read"

QuitAfterRcptWitness ==
    /\ Evaluated(V_QUIT)
    /\ last.line = L_Quit
    /\ last.pre.v.RcptFirst
    /\ exit[last.s] = "quit"

QuitArgWitness ==
    /\ Evaluated(V_QUIT)
    /\ last.line = L_QuitArg
    /\ pc[last.s] = "read"

\* C17 as stated: after a line with verb RSET is processed, the three flags
\* are false
RsetClearsFlags ==
    Accepts(last, V_RSET) =>
        /\ ~Validity[last.s].HeloFirst
        /\ ~Validity[last.s].MailFirst
        /\ ~Validity[last.s].RcptFirst

\* C17: a line ending in CRLF with verb RSET is accepted, nothing is
\* transmitted, and the three flags and the envelope are what they were
RsetKeepsFlags ==
    Evaluated(V_RSET) =>
        /\ Accepts(last, V_RSET)
        /\ last.writes = <<>>
        /\ Validity[last.s] = last.pre.v
        /\ envl[last.s] = last.pre.e
        /\ pc[last.s] = "read"

\* C17, its case: RSET in a session that has a sender and a recipient
RsetWitness ==
    /\ Accepts(last, V_RSET)
    /\ last.line = L_Rset
    /\ last.pre.v.HeloFirst /\ last.pre.v.MailFirst /\ last.pre.v.RcptFirst
    /\ Validity[last.s].RcptFirst
    /\ Len(envl[last.s].RecipientAddress) > 0

\* C18: a flag that is true stays true, whatever line comes next
FlagsMonotonic ==
    [][\A s \in DOMAIN pc :
          /\ Validity[s].HeloFirst => Validity'[s].HeloFirst
          /\ Validity[s].MailFirst => Validity'[s].MailFirst
          /\ Validity[s].RcptFirst => Validity'[s].RcptFirst]_vars

\* C18, its case: EHLO accepted again in a session that has a sender and a
\* recipient, which it keeps
RepeatedHelloWitness ==
    /\ Accepts(last, V_EHLO)
    /\ last.pre.v.MailFirst /\ last.pre.v.RcptFirst
    /\ Validity[last.s].MailFirst /\ Validity[last.s].RcptFirst

\* the step to the primed state is an iteration of s that accepted verb
AcceptedStep(s, verb) == Accepts(last', verb) /\ last'.s = s /\ last' # last

\* C19: RecipientAddress changes only by an accepted RCPT TO:, which appends
\* the address of its line; every other step leaves it as it is
RecipientsAppendOnly ==
    /\ [](Accepts(last, V_RCPT) =>
            envl[last.s].RecipientAddress =
                Append(last.pre.e.RecipientAddress, last.addr))
    /\ [][\A s \in DOMAIN pc :
             \/ envl'[s].RecipientAddress = envl[s].RecipientAddress
             \/ /\ AcceptedStep(s, V_RCPT)
                /\ envl'[s].RecipientAddress =
                      Append(envl[s].RecipientAddress, last'.addr)]_vars

\* C19, its case: a sender accepted after the same recipient was accepted
\* twice, both entries kept
RecipientsKeptWitness ==
    /\ Accepts(last, V_MAIL)
    /\ Len(envl[last.s].RecipientAddress) = 2
    /\ envl[last.s].RecipientAddress[1] = envl[last.s].RecipientAddress[2]

\* C20: an accepted MAIL FROM: writes the address of its line over
\* OriginatorAddress and leaves RecipientAddress and RcptFirst as they
\* were; no other step changes OriginatorAddress
OriginatorIsLastMail ==
    /\ [](Accepts(last, V_MAIL) =>
            /\ envl[last.s].OriginatorAddress = last.addr
            /\ envl[last.s].RecipientAddress = last.pre.e.RecipientAddress
            /\ Validity[last.s].RcptFirst = last.pre.v.RcptFirst)
    /\ [][\A s \in DOMAIN pc :
             \/ envl'[s].OriginatorAddress = envl[s].OriginatorAddress
             \/ /\ AcceptedStep(s, V_MAIL)
                /\ envl'[s].OriginatorAddress = last'.addr]_vars

\* C20, its case: a second sender accepted over a different one, in a
\* session that has a recipient
OriginatorOverwrittenWitness ==
    /\ Accepts(last, V_MAIL)
    /\ last.line = L_Mail
    /\ last.pre.e.OriginatorAddress # <<>>
    /\ last.pre.e.OriginatorAddress # last.addr
    /\ envl[last.s].OriginatorAddress = last.addr
    /\ last.pre.v.RcptFirst

\* C21: a session handles its lines strictly in arrival order, one line for
\* each iteration: the iteration takes the line at the head of what the peer
\* has sent and no other, writes the one reply of that line, and the session
\* goes back to ReadString only when that reply was written and flushed; a
\* step of another session does not move this session's position
NoPipelining ==
    [][\A s \in Sessions :
          IF last' # last /\ last'.op = "loop" /\ last'.s = s
          THEN /\ pc[s] = "read"
               /\ peer[s].script # <<>>
               /\ last'.line = Head(peer[s].script)
               /\ peer'[s].script = Tail(peer[s].script)
               /\ Len(last'.writes) = 1
               /\ pc'[s] = "read" => last'.writes[1].ok
               /\ ~last'.writes[1].ok => pc'[s] = "close"
          ELSE peer'[s] = peer[s]]_vars

\* C21, its case: the fourth line of the scenario answered, its reply
\* flushed, and the session about to read the fifth
NextLineAfterReplyWitness ==
    /\ last.op = "loop"
    /\ last.line = L_Data
    /\ last.writes = <<Write(REPLY_354, TRUE)>>
    /\ pc[last.s] = "read"
    /\ LinesRead(last.s) = 4
    /\ peer[last.s].script = <<L_Quit>>

\* the step to the primed state is a step of Serve in session s: its
\* greeting or one iteration of its loop
ServeStep(s) == last' # last /\ last'.s = s

\* C22: sessions are isolated.  A step of one session, whatever line it
\* read, leaves the flags, the envelope, the position, the peer and the
\* connection of every other session as they were, and what it evaluates
\* the line against is its own flags and envelope; the flags of a session
\* change only in an iteration of its own loop, its envelope only in its own
\* Serve; no iteration touches the completion tracker or the shutdown signal
SessionsIsolated ==
    /\ [][\A s \in Sessions :
             /\ ServeStep(s) =>
                   /\ last'.pre = [v |-> Validity[s], e |-> envl[s]]
                   /\ wg' = wg /\ ChanClosed' = ChanClosed
                   /\ \A t \in Sessions \ {s} :
                         /\ Validity'[t] = Validity[t]
                         /\ envl'[t] = envl[t]
                         /\ pc'[t] = pc[t]
                         /\ exit'[t] = exit[t]
                         /\ peer'[t] = peer[t]
                         /\ conn'[t] = conn[t]
             /\ Validity'[s] # Validity[s] =>
                   ServeStep(s) /\ last'.op = "loop" /\ last'.evaluated
             /\ envl'[s] # envl[s] => ServeStep(s)]_vars
    /\ [](Evaluated(V_MAIL) =>
             (last.err = ehloFirstErr <=> ~last.pre.v.HeloFirst))
    /\ [](Evaluated(V_RCPT) =>
             /\ last.err = ehloFirstErr <=> ~last.pre.v.HeloFirst
             /\ last.err = badSeqErr <=>
                   (last.pre.v.HeloFirst /\ ~last.pre.v.MailFirst))

\* C22, its case: a session that has not greeted has its MAIL FROM: refused
\* while the other session, which has a recipient, keeps reading
TwoSessionsApartWitness ==
    /\ Evaluated(V_MAIL)
    /\ last.err = ehloFirstErr
    /\ Validity[last.s] = NewValidity
    /\ \E t \in Sessions \ {last.s} :
          /\ pc[t] = "read"
          /\ Validity[t].RcptFirst
          /\ Len(envl[t].RecipientAddress) = 1

\* the line does not end with CR LF
Unterminated(line) ==
    \/ Len(line) < 2
    \/ line[Len(line) - 1] # "\r"
    \/ line[Len(line)] # "\n"

\* C23: the line is checked first.  Every line that Valid evaluates and
\* that does not end with CR LF, the empty line included, gets syntaxErr
\* (555) from ValidLine and from Valid, whatever its verb and whatever the
\* flags, is answered with it, does not reach the switch and changes
\* nothing; a line that ends with CR LF passes ValidLine
LineCheckedFirst ==
    (last.op = "loop" /\ last.evaluated) =>
        IF Unterminated(last.line)
        THEN /\ last.lineErr = syntaxErr
             /\ last.err = syntaxErr
             /\ last.writes[Len(last.writes)].text = syntaxErr
             /\ ~last.dispatched
             /\ Validity[last.s] = last.pre.v
             /\ envl[last.s] = last.pre.e
        ELSE last.lineErr = nil

\* C23, its case: DATA with a lone CR, before any greeting: the syntax
\* error and not the sequence error
UnterminatedDataWitness ==
    /\ last.op = "loop" /\ last.evaluated
    /\ last.line = P_DataCR
    /\ last.verb = V_DATA
    /\ last.pre.v = NewValidity
    /\ last.err = syntaxErr

\* C23, its case: QUIT that ends with LF alone is refused and the session
\* goes on
QuitLineFeedWitness ==
    /\ last.op = "loop" /\ last.evaluated
    /\ last.line = L_QuitLF
    /\ ~last.rerr
    /\ last.writes = <<Write(syntaxErr, TRUE)>>
    /\ pc[last.s] = "read"

\* C23, its case: the empty line
EmptyLineWitness ==
    /\ last.op = "loop" /\ last.evaluated
    /\ last.line = P_Empty
    /\ Texts = <<REPLY_453, syntaxErr>>

\* the line begins with the verb word, in either case; white space or the
\* terminator follows a word that does not end with its own colon
VerbLine(line, word) ==
    /\ Len(line) > Len(word)
    /\ ToUpper(SubSeq(line, 1, Len(word))) = word
    /\ word[Len(word)] = ":" \/ IsSpace(line[Len(word) + 1])

\* what follows the verb word on the line, without the white space around it
RawArg(line, word) == TrimSpace(SubSeq(line, Len(word) + 1, Len(line)))

\* the text has white space inside it: it is more than one token
ManyTokens(text) == \E i \in DOMAIN text : IsSpace(text[i])

\* the last step evaluated a line ending in CRLF that begins with word
EvaluatedLine(word) ==
    /\ last.op = "loop"
    /\ last.evaluated
    /\ ~Unterminated(last.line)
    /\ VerbLine(last.line, word)

\* C24: an EHLO or HELO line with an empty argument or an argument of more
\* than one token is rejected with invalidCommandArgErr and leaves HeloFirst
\* as it was; with an argument of one token it is accepted, sets HeloFirst
\* and is answered with REPLY_250
HelloArgumentRule ==
    \A word \in {V_EHLO, V_HELO} :
        EvaluatedLine(word) =>
            IF RawArg(last.line, word) = <<>>
               \/ ManyTokens(RawArg(last.line, word))
            THEN /\ last.err = invalidCommandArgErr
                 /\ Validity[last.s].HeloFirst = last.pre.v.HeloFirst
            ELSE /\ last.err = nil
                 /\ Validity[last.s].HeloFirst
                 /\ Texts = <<REPLY_250>>

\* C24, its case: EHLO with the one token a:b is answered with REPLY_503
\* and the session has not greeted
HelloColonWitness ==
    /\ EvaluatedLine(V_EHLO)
    /\ last.line = L_EhloColon
    /\ last.writes = <<Write(REPLY_503, TRUE)>>
    /\ ~Validity[last.s].HeloFirst
    /\ pc[last.s] = "read"

\* C24, its case: EHLO with two tokens that a tab separates is accepted
HelloTabWitness ==
    /\ EvaluatedLine(V_EHLO)
    /\ last.line = L_EhloTab
    /\ last.writes = <<Write(REPLY_250, TRUE)>>
    /\ ~last.pre.v.HeloFirst
    /\ Validity[last.s].HeloFirst

\* the flags before the last step allow DATA
DataInSequence ==
    last.pre.v.HeloFirst /\ last.pre.v.MailFirst /\ last.pre.v.RcptFirst

\* C25: a DATA, RSET or QUIT line with an argument, evaluated where the verb
\* is in sequence, is rejected with invalidCommandArgErr (501)
ZeroArgumentRule ==
    \A word \in {V_DATA, V_RSET, V_QUIT} :
        (/\ EvaluatedLine(word)
         /\ RawArg(last.line, word) # <<>>
         /\ word = V_DATA => DataInSequence) =>
            /\ last.err = invalidCommandArgErr
            /\ Texts = <<invalidCommandArgErr>>

\* C25, its case: DATA with an argument, after a recipient: the syntax error
DataArgumentWitness ==
    /\ EvaluatedLine(V_DATA)
    /\ last.line = L_DataArg
    /\ DataInSequence
    /\ last.writes = <<Write(syntaxErr, TRUE)>>

\* C25, its case: RSET with an argument is accepted, with no reply
RsetArgumentWitness ==
    /\ EvaluatedLine(V_RSET)
    /\ last.line = L_RsetArg
    /\ last.err = nil
    /\ last.dispatched
    /\ last.writes = <<>>
    /\ pc[last.s] = "read"

\* C25, its case: QUIT with an argument is refused with 501
QuitArgumentWitness ==
    /\ EvaluatedLine(V_QUIT)
    /\ last.line = L_QuitArg
    /\ last.writes = <<Write(invalidCommandArgErr, TRUE)>>
    /\ pc[last.s] = "read"

\* C26: a VRFY or EXPN line with an empty argument is rejected with
\* invalidCommandArgErr (501); with an argument it is accepted
ArgumentRequiredRule ==
    \A word \in {V_VRFY, V_EXPN} :
        EvaluatedLine(word) =>
            IF RawArg(last.line, word) = <<>>
            THEN /\ last.err = invalidCommandArgErr
                 /\ Texts = <<invalidCommandArgErr>>
            ELSE last.err = nil /\ last.dispatched

\* C26, its case: VRFY with no argument is accepted, with no reply
VrfyNoArgumentWitness ==
    /\ EvaluatedLine(V_VRFY)
    /\ last.line = L_VrfyNone
    /\ last.err = nil
    /\ last.dispatched
    /\ last.writes = <<>>
    /\ pc[last.s] = "read"

\* C26, its case: EXPN with no argument, likewise
ExpnNoArgumentWitness ==
    /\ EvaluatedLine(V_EXPN)
    /\ last.line = L_ExpnNone
    /\ last.err = nil
    /\ last.writes = <<>>

\* C27: a NOOP or HELP line, whatever its argument, passes Valid, takes the
\* case of NOOP and HELP in the switch, which only logs, and is not answered
\* with an error reply
AnyArgumentRule ==
    \A word \in {V_NOOP, V_HELP} :
        EvaluatedLine(word) =>
            /\ last.err = nil
            /\ last.dispatched
            /\ last.verb = word
            /\ last.writes = <<>>

\* C27, its case: NOOP a:b is answered with REPLY_503
NoopColonWitness ==
    /\ EvaluatedLine(V_NOOP)
    /\ last.line = L_NoopColon
    /\ last.err = nil
    /\ last.verb # V_NOOP
    /\ last.writes = <<Write(REPLY_503, TRUE)>>
    /\ pc[last.s] = "read"

\* C27, its case: HELP with an argument that has no colon is only logged
HelpArgumentWitness ==
    /\ EvaluatedLine(V_HELP)
    /\ last.line = L_Help
    /\ last.verb = V_HELP
    /\ last.writes = <<>>

\* an address local@domain: a local part and labels of letters, digits, ".",
\* "_" and "-", and after the last dot two letters or more
WellFormedAddress(a) ==
    \E k \in 2..Len(a) : \E d \in (k + 2)..(Len(a) - 2) :
        /\ a[k] = "@"
        /\ a[d] = "."
        /\ \A i \in 1..(k - 1) : a[i] \in AddrCh
        /\ \A i \in (k + 1)..(d - 1) : a[i] \in AddrCh
        /\ \A i \in (d + 1)..Len(a) : a[i] \in Alpha

\* the text has a part in angle brackets
HasBrackets(text) ==
    \E i \in DOMAIN text : \E j \in DOMAIN text :
        i < j /\ text[i] = "<" /\ text[j] = ">"

\* the text has an address in angle brackets
HasBracketedAddress(text) ==
    \E i \in DOMAIN text : \E j \in DOMAIN text :
        /\ i < j /\ text[i] = "<" /\ text[j] = ">"
        /\ WellFormedAddress(SubSeq(text, i + 1, j - 1))

\* the last step evaluated a MAIL FROM: line in a session that has greeted
EvaluatedMail == EvaluatedLine(V_MAIL) /\ last.pre.v.HeloFirst

MailBadWitness ==
    /\ EvaluatedMail
    /\ last.line = L_MailBad
    /\ HasBrackets(RawArg(last.line, V_MAIL))
    /\ last.err = invalidCommandArgErr

\* C28, its case: the empty argument
MailNoneWitness ==
    /\ EvaluatedMail
    /\ last.line = L_MailNone
    /\ last.err = syntaxErr

\* a domain: labels of letters, digits, ".", "_" and "-", and after the last
\* dot two letters or more
WellFormedDomain(d) ==
    \E dot \in 2..(Len(d) - 2) :
        /\ d[dot] = "."
        /\ \A i \in 1..(dot - 1) : d[i] \in AddrCh
        /\ \A i \in (dot + 1)..Len(d) : d[i] \in Alpha

\* a source route: hops @domain with commas between them
RECURSIVE IsRoute(_)
IsRoute(r) ==
    /\ Len(r) > 1
    /\ r[1] = "@"
    /\ \/ WellFormedDomain(Tail(r))
       \/ \E c \in 3..(Len(r) - 1) :
             /\ r[c] = ","
             /\ WellFormedDomain(SubSeq(r, 2, c - 1))
             /\ IsRoute(SubSeq(r, c + 1, Len(r)))

\* what is after the colon of the text, all of it when it has no colon
AfterColon(text) ==
    IF \E c \in DOMAIN text : text[c] = ":"
    THEN SubSeq(text, SetMax({c \in DOMAIN text : text[c] = ":"}) + 1, Len(text))
    ELSE text
\* what is before the colon of a text that has one
BeforeColon(text) ==
    SubSeq(text, 1, SetMax({c \in DOMAIN text : text[c] = ":"}) - 1)

\* a forward path: one address in angle brackets, after a source route that
\* ends with a colon if there is a route
WellFormedPath(text) ==
    /\ Len(text) > 2
    /\ text[1] = "<"
    /\ text[Len(text)] = ">"
    /\ WellFormedAddress(AfterColon(SubSeq(text, 2, Len(text) - 1)))
    /\ AfterColon(SubSeq(text, 2, Len(text) - 1)) # SubSeq(text, 2, Len(text) - 1)
          => IsRoute(BeforeColon(SubSeq(text, 2, Len(text) - 1)))
\* the address of a forward path
PathAddress(text) == AfterColon(SubSeq(text, 2, Len(text) - 1))

\* the last step evaluated a RCPT TO: line in a session that has a sender
EvaluatedRcpt ==
    /\ EvaluatedLine(V_RCPT)
    /\ last.pre.v.HeloFirst
    /\ last.pre.v.MailFirst

\* C29: RCPT TO: has two tiers: an argument that is empty or has no part in
\* angle brackets gets syntaxErr (555); an argument with angle brackets that
\* is not one address in angle brackets, after a source route or not, gets
\* invalidRcptEmailErr (553); both leave RcptFirst and RecipientAddress as
\* they were
RcptBracketTiers ==
    EvaluatedRcpt =>
        IF ~HasBrackets(RawArg(last.line, V_RCPT))
        THEN /\ last.err = syntaxErr
             /\ Validity[last.s] = last.pre.v /\ envl[last.s] = last.pre.e
        ELSE ~WellFormedPath(RawArg(last.line, V_RCPT)) =>
                /\ last.err = invalidRcptEmailErr
                /\ Validity[last.s] = last.pre.v /\ envl[last.s] = last.pre.e

\* C29, its case: a hop with no colon after it, glued to the address, is
\* accepted, and the recipient recorded is neither the hop nor the address
RcptGluedWitness ==
    /\ EvaluatedRcpt
    /\ last.line = L_RcptGlued
    /\ ~WellFormedPath(RawArg(last.line, V_RCPT))
    /\ last.writes = <<Write(REPLY_250_RCPT, TRUE)>>
    /\ ~last.pre.v.RcptFirst
    /\ Validity[last.s].RcptFirst
    /\ envl[last.s].RecipientAddress =
          <<<<"h", ".", "i", "o", "c", "@", "d", ".", "c", "o", "m">>>>

\* C29, its case: two addresses in one pair of brackets get the 553 reply
RcptTwoWitness ==
    /\ EvaluatedRcpt
    /\ last.line = L_RcptTwo
    /\ last.writes = <<Write(invalidRcptEmailErr, TRUE)>>
    /\ envl[last.s].RecipientAddress = <<>>

\* C30: the address comes back as it went in.  A RCPT TO: line whose
\* argument is a well-formed address in angle brackets, alone or after a
\* source route of hops that ends with a colon, passes ValidRcpt;
\* EmailAddress returns that address, the whole of it and no hop, and it is
\* what the step appends to RecipientAddress
AddressRoundTrip ==
    (EvaluatedRcpt /\ WellFormedPath(RawArg(last.line, V_RCPT))) =>
        /\ last.err = nil
        /\ last.dispatched
        /\ last.addr = PathAddress(RawArg(last.line, V_RCPT))
        /\ envl[last.s].RecipientAddress =
              Append(last.pre.e.RecipientAddress,
                     PathAddress(RawArg(last.line, V_RCPT)))

\* C30, its case: an address with a subdomain after a source route
RoutedAddressWitness ==
    /\ EvaluatedRcpt
    /\ last.line = L_RcptSubRoute
    /\ last.addr = <<"u", "-", "1", "@", "s", ".", "d", ".", "i", "o">>
    /\ envl[last.s].RecipientAddress = <<last.addr>>

\* C30, its case: a route of two hops
TwoHopsWitness ==
    /\ EvaluatedRcpt
    /\ last.line = L_RcptRoutes
    /\ last.addr = <<"c", "@", "d", ".", "c", "o", "m">>
    /\ Len(envl[last.s].RecipientAddress) = 2

\* the number of white-space characters the line begins with
LeadingSpace(line) ==
    IF \A i \in DOMAIN line : IsSpace(line[i]) THEN Len(line)
    ELSE SetMin({i \in DOMAIN line : ~IsSpace(line[i])}) - 1

\* what the line holds after its verb token, the token being where the
\* line's first character that is not white space is, without the white
\* space and the terminator around it
Remainder(line, verb) ==
    IF line = CRLF THEN <<>>
    ELSE TrimSpace(From(line, LeadingSpace(line) + Len(verb)))

\* C31: for every line ending in CRLF, Arg is the rest of the line after
\* its verb token, trimmed, also when white space precedes the verb
ArgIsRemainder ==
    (last.op = "loop" /\ last.evaluated /\ ~Unterminated(last.line)) =>
        last.arg = Remainder(last.line, last.verb)

\* C31, its case: DATA after one space, in a session that has a recipient:
\* Arg is the last letter of the verb and the line is refused
DataLeadWitness ==
    /\ last.op = "loop" /\ last.evaluated
    /\ last.line = L_DataLead
    /\ last.verb = V_DATA
    /\ Remainder(last.line, last.verb) = <<>>
    /\ last.arg = <<"A">>
    /\ DataInSequence
    /\ last.writes = <<Write(syntaxErr, TRUE)>>

\* C31, its case: a line with no white space before the verb
ArgOfMailWitness ==
    /\ last.op = "loop" /\ last.evaluated
    /\ last.line = L_MailTwo
    /\ last.arg = Remainder(last.line, last.verb)
    /\ Len(last.arg) = 17

\* the verbs that Valid or the switch of Serve names, the blank line included
Recognised ==
    {V_EHLO, V_HELO, V_MAIL, V_RCPT, V_DATA, V_RSET, V_QUIT, V_NOOP, V_HELP,
     V_EXPN, V_VRFY, CRLF}

\* C32: a line ending in CRLF whose verb is none of the recognised ones, the
\* empty verb of a short line included, passes Valid, is answered with
\* REPLY_503 and nothing else, leaves flags and envelope as they were, and
\* the session reads the next line once the reply is flushed
UnknownVerbRule ==
    (/\ last.op = "loop" /\ last.evaluated
     /\ ~Unterminated(last.line)
     /\ last.verb \notin Recognised) =>
        /\ last.err = nil
        /\ last.dispatched
        /\ Texts = <<REPLY_503>>
        /\ Validity[last.s] = last.pre.v
        /\ envl[last.s] = last.pre.e
        /\ last.writes[1].ok => (pc[last.s] = "read" /\ exit[last.s] = "")

\* C32, its case: a line of three letters, the empty verb, in a session
\* that has a recipient
ShortLineWitness ==
    /\ last.op = "loop" /\ last.evaluated
    /\ last.line = L_Short
    /\ last.verb = <<>>
    /\ last.writes = <<Write(REPLY_503, TRUE)>>
    /\ last.pre.v.RcptFirst
    /\ Validity[last.s].RcptFirst
    /\ pc[last.s] = "read"

\* C32, its case: a verb of five letters
UnknownVerbWitness ==
    /\ last.op = "loop" /\ last.evaluated
    /\ last.line = L_Unknown
    /\ last.verb \notin Recognised
    /\ last.writes = <<Write(REPLY_503, TRUE)>>
    /\ pc[last.s] = "read"

\* C33: the line that is CR LF and nothing else is a no-op: in every state
\* it passes ValidLine and Valid, takes the case of the switch that only
\* logs, is answered with nothing, leaves flags and envelope as they were,
\* and the session goes on to the next read
BlankLineNoOp ==
    (last.op = "loop" /\ last.evaluated /\ last.line = CRLF) =>
        /\ last.lineErr = nil
        /\ last.err = nil
        /\ last.verb = CRLF
        /\ last.arg = <<>>
        /\ last.dispatched
        /\ last.writes = <<>>
        /\ Validity[last.s] = last.pre.v
        /\ envl[last.s] = last.pre.e
        /\ pc[last.s] = "read"
        /\ exit[last.s] = ""

\* C33, its case: the blank line before any greeting
BlankLineWitness ==
    /\ last.op = "loop" /\ last.evaluated
    /\ last.line = L_Blank
    /\ last.pre.v = NewValidity
    /\ last.writes = <<>>
    /\ pc[last.s] = "read"

\* C33, its case: the blank line in a session that has a recipient
BlankLineLateWitness ==
    /\ last.op = "loop" /\ last.evaluated
    /\ last.line = L_Blank
    /\ last.pre.v.RcptFirst
    /\ Len(envl[last.s].RecipientAddress) = 2
    /\ pc[last.s] = "read"

\* the error replies of Valid
ErrorReplies ==
    {ehloFirstErr, badSeqErr, syntaxErr, invalidCommandArgErr,
     invalidRcptEmailErr}

\* C34: a line that Valid rejects is answered, never dropped in silence:
\* the iteration transmits the error of the line, one of the 501, 503, 555
\* and 553 replies, once and as its last write, after nothing but the retry
\* reply of a failed read; it does not reach the switch; with the reply
\* flushed the connection stays open and the session reads the next line,
\* and the session leaves Serve only when the flush failed
RejectionIsReplied ==
    (last.op = "loop" /\ last.evaluated /\ last.err # nil) =>
        /\ last.err \in ErrorReplies
        /\ Cardinality({i \in DOMAIN last.writes :
                           last.writes[i].text \in ErrorReplies}) = 1
        /\ last.writes[Len(last.writes)].text = last.err
        /\ Len(last.writes) = IF last.rerr THEN 2 ELSE 1
        /\ last.rerr => last.writes[1] = Write(REPLY_453, TRUE)
        /\ ~last.dispatched
        /\ IF last.writes[Len(last.writes)].ok
           THEN /\ pc[last.s] = "read"
                /\ conn[last.s] = "open"
                /\ connCloses[last.s] = 0
           ELSE exit[last.s] = "error write failed"

\* C34, its case: two recipients in one pair of brackets: the 553 block,
\* and the connection stays open
RejectionRepliedWitness ==
    /\ last.op = "loop" /\ last.evaluated
    /\ last.err = invalidRcptEmailErr
    /\ last.writes = <<Write(invalidRcptEmailErr, TRUE)>>
    /\ pc[last.s] = "read"
    /\ conn[last.s] = "open"

\* the last step was an iteration whose read failed and which found
\* ChanClosed closed at its check
ReadErrorAtShutdown == last.op = "loop" /\ last.rerr /\ last.shut

\* C35 as stated: after a failed read, with ChanClosed closed at the check,
\* the session writes REPLY_453 exactly once, as its last reply, and returns
ShutdownReplyOnce ==
    ReadErrorAtShutdown =>
        /\ Cardinality({i \in DOMAIN last.writes :
                           last.writes[i].text = REPLY_453}) = 1
        /\ last.writes[Len(last.writes)].text = REPLY_453
        /\ exit[last.s] = "shutdown"

\* what C35 holds of every state: the iteration writes REPLY_453 twice, for
\* the failed read and for the shutdown, the second as the last reply of the
\* session, evaluates nothing and returns; Wg.Done() is never called twice
ShutdownReplyTwice ==
    /\ ReadErrorAtShutdown =>
          /\ Len(last.writes) = 2
          /\ last.writes[1] = Write(REPLY_453, TRUE)
          /\ last.writes[2].text = REPLY_453
          /\ ~last.evaluated
          /\ exit[last.s] = "shutdown"
          /\ pc[last.s] \in Closing
    /\ \A s \in Sessions : done[s] <= 1

\* C35: when a read fails and ChanClosed is closed by the time of the check,
\* the session writes REPLY_453 twice (the retry reply, then the reply of
\* the shutdown as its last), returns, and calls Wg.Done() exactly once
ShutdownAfterReadError ==
    /\ []ShutdownReplyTwice
    /\ \A s \in Solo :
          (exit[s] = "shutdown") ~> (done[s] = 1 /\ pc[s] = "closed")

\* C35, its case: a partial line, then the shutdown: REPLY_453 twice, the
\* session closed and its count given back
TwoRepliesAtShutdownWitness ==
    /\ ReadErrorAtShutdown
    /\ last.line = P_Quit
    /\ last.writes = <<Write(REPLY_453, TRUE), Write(REPLY_453, TRUE)>>
    /\ exit[last.s] = "shutdown"
    /\ pc[last.s] = "closed"
    /\ done[last.s] = 1

\* C36: a read that fails with ChanClosed open is answered twice within one
\* iteration.  The iteration transmits REPLY_453 and, that reply flushed,
\* hands the bytes the failed read returned to Valid as a command: the line
\* has a verb of its own but no CRLF, so it gets syntaxErr, the second reply
\* of the iteration, and neither QUIT nor any other case of the switch is
\* reached; only then is the next ReadString attempted
ReadErrorTwoReplies ==
    [][\A s \in Sessions :
          (/\ ServeStep(s)
           /\ last'.op = "loop"
           /\ last'.rerr
           /\ ~ChanClosed
           /\ last'.writes[1].ok) =>
              /\ pc[s] = "read"
              /\ Unterminated(last'.line)
              /\ last'.evaluated
              /\ last'.lineErr = syntaxErr
              /\ last'.err = syntaxErr
              /\ ~last'.dispatched
              /\ Len(last'.writes) = 2
              /\ last'.writes[1].text = REPLY_453
              /\ last'.writes[2].text = syntaxErr
              /\ Validity'[s] = Validity[s]
              /\ envl'[s] = envl[s]
              /\ exit'[s] # "quit"
              /\ pc'[s] = "read" <=> last'.writes[2].ok]_vars

\* C36, its case: the read failed with nothing read; both replies flushed
EmptyReadTwoRepliesWitness ==
    /\ last.op = "loop"
    /\ last.rerr
    /\ ~last.closed
    /\ last.line = P_Empty
    /\ last.verb = <<>>
    /\ last.writes = <<Write(REPLY_453, TRUE), Write(syntaxErr, TRUE)>>
    /\ pc[last.s] = "read"

\* C36, its case: the read failed after QUIT: the verb is QUIT and the
\* session does not quit
PartialQuitNotQuitWitness ==
    /\ last.op = "loop"
    /\ last.rerr
    /\ ~last.closed
    /\ last.verb = V_QUIT
    /\ last.pre.v.RcptFirst
    /\ Texts = <<REPLY_453, syntaxErr>>
    /\ pc[last.s] = "read"

\* the last step evaluated a line ending in CRLF and every write of it was
\* flushed
EvaluatedAndFlushed ==
    /\ last.op = "loop"
    /\ last.evaluated
    /\ ~Unterminated(last.line)
    /\ AllWritten

\* the verbs whose case in the switch only logs
LoggedOnly == {CRLF, V_RSET, V_NOOP, V_HELP, V_EXPN, V_VRFY}

\* C37 as stated: every line ending in CRLF that the session evaluates is
\* answered with one reply at least before the next read, whatever its verb
EveryLineAnswered == EvaluatedAndFlushed => Len(last.writes) >= 1

\* C37: a line ending in CRLF that the session evaluates is answered with
\* exactly one reply before the next read when Valid rejects it or when its
\* verb is EHLO, HELO, MAIL FROM:, RCPT TO:, DATA, QUIT or none that the
\* switch names; a line that Valid accepts with the verb RSET, NOOP, HELP,
\* VRFY or EXPN, and the blank line, gets no reply and the session reads on
AnsweredUnlessLogged ==
    EvaluatedAndFlushed =>
        IF last.err = nil /\ last.verb \in LoggedOnly
        THEN /\ last.writes = <<>>
             /\ pc[last.s] = "read"
        ELSE /\ Len(last.writes) = 1
             /\ pc[last.s] = "read" <=> exit[last.s] # "quit"

\* C37, its case: NOOP gets no reply and the session waits for the next line
NoopUnansweredWitness ==
    /\ EvaluatedAndFlushed
    /\ last.line = L_Noop
    /\ last.dispatched
    /\ last.writes = <<>>
    /\ pc[last.s] = "read"

\* C37, its case: DATA in sequence gets its one reply
DataAnsweredWitness ==
    /\ EvaluatedAndFlushed
    /\ last.line = L_Data
    /\ last.writes = <<Write(REPLY_354, TRUE)>>
    /\ pc[last.s] = "read"

\* C38: whenever the WaitGroup counter is zero (Wg.Wait() of Stop can
\* return), the connection of every session has been closed: no session has
\* called Wg.Done() while its connection is still open
TrackerZeroAllClosed ==
    /\ wg = 0 => \A s \in Sessions : conn[s] # "open"
    /\ \A s \in Sessions : done[s] > 0 => conn[s] # "open"

\* C38, its cases: Stop has returned while a session that has called
\* Wg.Done() has not yet closed its connection; and both sessions in that
\* position at once
StopReturnedConnOpenWitness ==
    /\ stopPc = "returned"
    /\ \E s \in Sessions : /\ pc[s] = "closeconn"
                           /\ done[s] = 1
                           /\ conn[s] = "open"

BothReleasedOpenWitness ==
    /\ wg = 0
    /\ \A s \in Pair : pc[s] = "closeconn" /\ conn[s] = "open"

\* the flags of a session say what its envelope holds
FlagsMatchEnvelope(v, e) ==
    /\ v.MailFirst <=> e.OriginatorAddress # <<>>
    /\ v.RcptFirst <=> /\ e.RecipientAddress # <<>>
                       /\ \A i \in DOMAIN e.RecipientAddress :
                             e.RecipientAddress[i] # <<>>

\* C39: each time a session is about to read a line, MailFirst is true if
\* and only if the originator of its envelope is not empty, and RcptFirst is
\* true if and only if its recipient list is not empty and holds no empty
\* address
FlagsAgreeWithEnvelope ==
    \A s \in Sessions : pc[s] = "read" => FlagsMatchEnvelope(Validity[s], envl[s])

\* C39, its cases: about to read with a sender and no recipient, with two
\* recipients, and with a sender declared again after the recipients; each
\* right after the line that wrote the envelope
SenderOnlyWitness ==
    \E s \in Sessions :
       /\ pc[s] = "read"
       /\ last.s = s
       /\ last.verb = V_MAIL
       /\ last.dispatched
       /\ Validity[s].MailFirst
       /\ ~Validity[s].RcptFirst
       /\ envl[s].OriginatorAddress # <<>>
       /\ envl[s].RecipientAddress = <<>>

TwoRecipientsWitness ==
    \E s \in Sessions :
       /\ pc[s] = "read"
       /\ last.s = s
       /\ last.verb = V_RCPT
       /\ last.dispatched
       /\ Validity[s].RcptFirst
       /\ Len(envl[s].RecipientAddress) = 2

SenderAgainWitness ==
    \E s \in Sessions :
       /\ pc[s] = "read"
       /\ last.s = s
       /\ last.verb = V_MAIL
       /\ last.dispatched
       /\ Validity[s].RcptFirst
       /\ envl[s].RecipientAddress # <<>>

\* the text has the address a in angle brackets
InBrackets(text, a) ==
    \E i \in DOMAIN text : \E j \in DOMAIN text :
        /\ i < j /\ text[i] = "<" /\ text[j] = ">"
        /\ SubSeq(text, i + 1, j - 1) = a

\* the last step accepted and dispatched a MAIL FROM: line
AcceptedMail == EvaluatedMail /\ last.err = nil /\ last.dispatched

\* C40: for every MAIL FROM: line that validation accepts, the address
\* recorded as OriginatorAddress is the well-formed address that the
\* argument has in angle brackets, whatever other text the argument holds
OriginatorIsBracketed ==
    AcceptedMail =>
        /\ WellFormedAddress(envl[last.s].OriginatorAddress)
        /\ InBrackets(RawArg(last.line, V_MAIL), envl[last.s].OriginatorAddress)

\* C40, its cases: an accepted MAIL FROM: line with an address before the
\* brackets, whose recorded originator is not the bracketed one; and an
\* accepted line with nothing but the bracketed address
OtherAddressRecordedWitness ==
    /\ AcceptedMail
    /\ HasBracketedAddress(RawArg(last.line, V_MAIL))
    /\ ~InBrackets(RawArg(last.line, V_MAIL), envl[last.s].OriginatorAddress)
    /\ envl[last.s].OriginatorAddress = last.addr

BracketedRecordedWitness ==
    /\ AcceptedMail
    /\ RawArg(last.line, V_MAIL) = <<"<">> \o envl[last.s].OriginatorAddress \o <<">">>
====
